---- MODULE Spec2Model ----
(***************************************************************************)
(* The person store of nest-family-tree and the operations of              *)
(* PersonsService (src/src/persons/persons.service.ts, the version that    *)
(* starts at line 379): create, updatePerson, removePerson,                *)
(* linkChildrenToParent and promoteAncestor, with their validators.        *)
(*                                                                         *)
(* A person row is a record; the store is a function from the ids of the   *)
(* rows that exist to their rows.  firstName, lastName and trivia are      *)
(* left out: no validator reads them.  create, updatePerson, removePerson  *)
(* and linkChildrenToParent are one action each (a single writer runs a    *)
(* handler to its end); promoteAncestor is a process of its own, one step  *)
(* per awaited call on the query runner, so that a failure can be placed   *)
(* at each step and two calls can interleave.  For overlapping calls,      *)
(* updatePerson is also given in two steps, its checks and its save.       *)
(*                                                                         *)
(* The accounts are modelled beside the persons: the tree table with       *)
(* AuthService.register, forgotPassword and resetPassword, and the system  *)
(* administrators' table with the endpoints of SystemAdminController.      *)
(***************************************************************************)
EXTENDS Integers, Sequences, FiniteSets, TLC

\* ---------------------------------------------------------------- bounds

\* Ids run from 1 to MaxPersons: no insert happens once they are used up.
MaxPersons == 3
\* The longest childrenIds array a request carries.
MaxChildren == 1
\* The number of promoteAncestor calls that can be in flight.
MaxCalls == 2

\* ---------------------------------------------------------------- values

\* A NULL fatherId / motherId column (and a null id in a payload).  Ids are
\* numbers; NULL is written as a number no request carries.
NULL == -1
\* A NULL birthDate / deathDate column (and a null date in a payload).
NoDate == <<>>

Genders == {"male", "female"}
Roles == {"father", "mother"}
T1 == "tree1"
T2 == "tree2"

\* JavaScript truthiness of an optional number: `if (fatherId)`.
Truthy(x) == x # NULL /\ x # 0

\* JavaScript truthiness of an optional date string: `if (!childBirthDate)`.
HasDate(d) == d # NoDate

\* An update payload is a record that holds the fields the request body
\* holds: a field left out is undefined, a field given as null is NULL
\* (NoDate for a date).
Has(dto, k) == k \in DOMAIN dto

\* `dto.k ?? stored` for an id field: stored when dto.k is null or undefined.
CoalesceId(dto, k, stored) ==
    IF Has(dto, k) /\ dto[k] # NULL THEN dto[k] ELSE stored

\* `dto.k ?? stored` for a date field.
CoalesceDate(dto, k, stored) ==
    IF Has(dto, k) /\ dto[k] # NoDate THEN dto[k] ELSE stored

\* `if (dto.k)` for an id field and for a date field of an update payload.
GivenId(dto, k) == Has(dto, k) /\ Truthy(dto[k])
GivenDate(dto, k) == Has(dto, k) /\ HasDate(dto[k])

\* ----------------------------------------------------------------- dates
\* A date string is the sequence of its '-'-separated parts: <<1950>> is
\* "1950", <<1950, 3>> is "1950-03", <<1950, 3, 31>> is "1950-03-31".

extractYear(d) == d[1]
isFullDate(d) == Len(d) = 3
isYearOnly(d) == Len(d) = 1

IsLeap(y) == (y % 4 = 0 /\ y % 100 # 0) \/ y % 400 = 0

DaysInMonth(y, m) ==
    IF m = 2 THEN (IF IsLeap(y) THEN 29 ELSE 28)
    ELSE IF m \in {4, 6, 9, 11} THEN 30 ELSE 31

\* Date.prototype.setMonth(getMonth() + 9) on a full date, in UTC: the month
\* index moves by nine, and a day past the end of the new month runs over
\* into the month after it (May 31 becomes "February 31", which is March 3).
NineMonthsAfter(d) ==
    LET mi == (d[2] - 1) + 9
        y  == d[1] + (mi \div 12)
        m  == (mi % 12) + 1
        dim == DaysInMonth(y, m)
    IN  IF d[3] > dim THEN <<y, m + 1, d[3] - dim>> ELSE <<y, m, d[3]>>

\* a > b on two Date values (compared by their time value).
DateAfter(a, b) ==
    \/ a[1] > b[1]
    \/ a[1] = b[1] /\ a[2] > b[2]
    \/ a[1] = b[1] /\ a[2] = b[2] /\ a[3] > b[3]

minParentAge == 14
MIN_PARENT_AGE == 14

\* --------------------------------------------------------------- results
\* What a handler answers: "ok", or the exception it throws.  The names are
\* those of the error taxonomy; the comment at each place gives the message.
OK == "ok"

\* Validators run one after another and the first exception ends the handler.
Then(e, next) == IF e # OK THEN e ELSE next

\* ------------------------------------------------------------ validators
\* P is the person table as the handler reads it: a function from the ids
\* of the rows that exist to the rows.

\* personRepository.findOneBy({ id }): the row, or null.
Exists(P, id) == id \in DOMAIN P

\* One parent of validateParents: lookup, then the gender of the role.
validateParent(P, id, gender) ==
    IF ~Truthy(id) THEN OK
    ELSE IF ~Exists(P, id) THEN "NotFound"
    ELSE IF P[id].gender # gender THEN "InvalidRole"
    ELSE OK

validateParents(P, fatherId, motherId) ==
    Then(validateParent(P, fatherId, "male"),
         validateParent(P, motherId, "female"))

\* The minimum-age test written `<=`: a parent of exactly 14 is rejected.
validateParentBirthOffByOne(parentBirthDate, childBirthDate) ==
    IF extractYear(parentBirthDate) >= extractYear(childBirthDate)
    THEN "ParentNotOlder"
    ELSE IF extractYear(childBirthDate) - extractYear(parentBirthDate) <= 14
    THEN "ParentTooYoung"
    ELSE "ok"

\* The birth-year checks of validateParentDates, the same for both parents:
\* "cannot be born in or after the same year as child", then "must be at
\* least 14 years old when child is born".
validateParentBirth(parentBirthDate, childBirthDate) ==
    LET parentBirthYear == extractYear(parentBirthDate)
        childBirthYear == extractYear(childBirthDate)
    IN  IF parentBirthYear >= childBirthYear THEN "ParentNotOlder"
        ELSE IF childBirthYear - parentBirthYear < minParentAge
             THEN "ParentTooYoung"
        ELSE OK

\* The father's year rule without the year of tolerance.
validateFatherDeathNoBuffer(fatherDeathDate, childBirthDate) ==
    IF isFullDate(fatherDeathDate) /\ isFullDate(childBirthDate)
    THEN (IF DateAfter(childBirthDate, NineMonthsAfter(fatherDeathDate))
          THEN "DiedTooEarly" ELSE "ok")
    ELSE (IF extractYear(childBirthDate) > extractYear(fatherDeathDate)
          THEN "DiedTooEarly" ELSE "ok")

\* Father death validation with partial date support.
validateFatherDeath(fatherDeathDate, childBirthDate) ==
    LET fatherDeathYear == extractYear(fatherDeathDate)
        childBirthYear == extractYear(childBirthDate)
    IN  IF isYearOnly(fatherDeathDate)
        THEN (IF childBirthYear > fatherDeathYear + 1
              THEN "DiedTooEarly" ELSE OK)
        ELSE IF isFullDate(fatherDeathDate) /\ isFullDate(childBirthDate)
        THEN (IF DateAfter(childBirthDate, NineMonthsAfter(fatherDeathDate))
              THEN "DiedTooEarly" ELSE OK)
        ELSE (IF childBirthYear > fatherDeathYear + 1
              THEN "DiedTooEarly" ELSE OK)

\* The mother's year rule with the father's year of tolerance.
validateMotherDeathWithBuffer(motherDeathDate, childBirthDate) ==
    IF isFullDate(motherDeathDate) /\ isFullDate(childBirthDate)
    THEN (IF DateAfter(childBirthDate, motherDeathDate)
          THEN "DiedTooEarly" ELSE "ok")
    ELSE (IF extractYear(childBirthDate) > extractYear(motherDeathDate) + 1
          THEN "DiedTooEarly" ELSE "ok")

\* The mother's check on years alone, whatever the precision.
validateMotherDeathYearsOnly(motherDeathDate, childBirthDate) ==
    IF extractYear(childBirthDate) > extractYear(motherDeathDate)
    THEN "DiedTooEarly" ELSE "ok"

\* Mother death validation with partial date support.
validateMotherDeath(motherDeathDate, childBirthDate) ==
    LET motherDeathYear == extractYear(motherDeathDate)
        childBirthYear == extractYear(childBirthDate)
    IN  IF isYearOnly(motherDeathDate)
        THEN (IF childBirthYear > motherDeathYear
              THEN "DiedTooEarly" ELSE OK)
        ELSE IF isFullDate(motherDeathDate) /\ isFullDate(childBirthDate)
        THEN (IF DateAfter(childBirthDate, motherDeathDate)
              THEN "DiedTooEarly" ELSE OK)
        ELSE (IF childBirthYear > motherDeathYear
              THEN "DiedTooEarly" ELSE OK)

\* One parent of validateParentDates: a parent id that is not truthy, or
\* that finds no row, is skipped (`if (father && father.birthDate)`).
validateOneParentDates(P, childBirthDate, id, role) ==
    IF ~Truthy(id) \/ ~Exists(P, id) THEN OK
    ELSE Then(IF HasDate(P[id].birthDate)
              THEN validateParentBirth(P[id].birthDate, childBirthDate)
              ELSE OK,
              IF ~HasDate(P[id].deathDate) THEN OK
              ELSE IF role = "father"
              THEN validateFatherDeath(P[id].deathDate, childBirthDate)
              ELSE validateMotherDeath(P[id].deathDate, childBirthDate))

validateParentDates(P, childBirthDate, fatherId, motherId) ==
    IF ~HasDate(childBirthDate) THEN OK
    ELSE Then(validateOneParentDates(P, childBirthDate, fatherId, "father"),
              validateOneParentDates(P, childBirthDate, motherId, "mother"))

\* The loop body of validateParentDatesForChildren for one child.
validateParentDatesForChild(child, parentGender, parentBirthDate, parentDeathDate) ==
    IF ~HasDate(child.birthDate) THEN OK
    ELSE LET parentBirthYear == extractYear(parentBirthDate)
             childBirthYear == extractYear(child.birthDate)
             parentAgeAtChildBirth == childBirthYear - parentBirthYear
         IN  IF parentAgeAtChildBirth < MIN_PARENT_AGE THEN "ParentTooYoung"
             ELSE IF ~HasDate(parentDeathDate)
                     \/ extractYear(parentDeathDate) = 0 THEN OK
             ELSE IF parentGender = "male"
             THEN (IF extractYear(parentDeathDate) < childBirthYear - 1
                   THEN "DiedTooEarly" ELSE OK)
             ELSE (IF extractYear(parentDeathDate) < childBirthYear
                   THEN "DiedTooEarly" ELSE OK)

\* `for (const child of children)`: the rows in the order the store returns
\* them (by id), up to the first exception.
RECURSIVE validateEachChild(_, _, _, _, _)
validateEachChild(P, ids, parentGender, parentBirthDate, parentDeathDate) ==
    IF ids = {} THEN OK
    ELSE LET id == CHOOSE i \in ids : \A j \in ids : i <= j
         IN  Then(validateParentDatesForChild(P[id], parentGender,
                                              parentBirthDate, parentDeathDate),
                  validateEachChild(P, ids \ {id}, parentGender,
                                    parentBirthDate, parentDeathDate))

validateParentDatesForChildren(P, ids, parentGender, parentBirthDate, parentDeathDate) ==
    IF HasDate(parentBirthDate) /\ HasDate(parentDeathDate)
       /\ extractYear(parentDeathDate) < extractYear(parentBirthDate)
    THEN "DeathBeforeBirth"
    ELSE IF ~HasDate(parentBirthDate) THEN OK
    ELSE validateEachChild(P, ids, parentGender, parentBirthDate,
                           parentDeathDate)

\* The elements of a childrenIds array.
Range(seq) == {seq[i] : i \in 1..Len(seq)}

\* personRepository.findBy(childrenIds.map((id) => ({ id }))): the rows
\* whose id is one of those listed.
findChildren(P, childrenIds) == Range(childrenIds) \cap DOMAIN P

\* The column a parent of this gender is written to.
ParentField(gender) == IF gender = "male" THEN "fatherId" ELSE "motherId"

\* The checks applied to the first listed child alone.
validateChildrenFirstOnly(P, childrenIds, gender, parentBirthDate, parentDeathDate) ==
    LET children == findChildren(P, childrenIds)
        first == IF Len(childrenIds) = 0 THEN {}
                 ELSE {childrenIds[1]} \cap DOMAIN P
    IN  IF Len(childrenIds) = 0 THEN OK
        ELSE IF first = {} THEN "ChildrenNotFound"
        ELSE IF \E c \in first : Truthy(P[c][ParentField(gender)])
        THEN "ChildHasParent"
        ELSE validateParentDatesForChildren(P, first, gender,
                                            parentBirthDate, parentDeathDate)

validateChildren(P, childrenIds, gender, parentBirthDate, parentDeathDate) ==
    LET children == findChildren(P, childrenIds)
    IN  IF Len(childrenIds) = 0 THEN OK
        ELSE IF Cardinality(children) # Len(childrenIds)
        THEN "ChildrenNotFound"
        ELSE IF \E c \in children : Truthy(P[c][ParentField(gender)])
        THEN "ChildHasParent"
        ELSE validateParentDatesForChildren(P, children, gender,
                                            parentBirthDate, parentDeathDate)

\* The cycle test without the traversal: only the parents startPersonId has
\* now are compared with potentialAncestorId.
wouldCreateAncestryCycleDirect(P, potentialAncestorId, startPersonId) ==
    /\ startPersonId \in DOMAIN P
    /\ \/ P[startPersonId].fatherId = potentialAncestorId
       \/ P[startPersonId].motherId = potentialAncestorId

\* The traversal of wouldCreateAncestryCycle: an explicit stack (its top is
\* the last element) and a visited set.
RECURSIVE ancestryWalk(_, _, _, _)
ancestryWalk(P, potentialAncestorId, stack, visited) ==
    IF Len(stack) = 0 THEN FALSE
    ELSE LET currentId == stack[Len(stack)]
             rest == SubSeq(stack, 1, Len(stack) - 1)
         IN  IF ~Truthy(currentId) \/ currentId \in visited
             THEN ancestryWalk(P, potentialAncestorId, rest, visited)
             ELSE IF ~Exists(P, currentId)
             THEN ancestryWalk(P, potentialAncestorId, rest,
                               visited \cup {currentId})
             ELSE LET fatherId == P[currentId].fatherId
                      motherId == P[currentId].motherId
                      v == visited \cup {currentId}
                      s1 == IF Truthy(fatherId) /\ fatherId \notin v
                            THEN Append(rest, fatherId) ELSE rest
                      s2 == IF Truthy(motherId) /\ motherId \notin v
                            THEN Append(s1, motherId) ELSE s1
                  IN  IF fatherId = potentialAncestorId
                         \/ motherId = potentialAncestorId
                      THEN TRUE
                      ELSE ancestryWalk(P, potentialAncestorId, s2, v)

wouldCreateAncestryCycle(P, potentialAncestorId, startPersonId) ==
    ancestryWalk(P, potentialAncestorId, <<startPersonId>>, {})

\* validateNotOrphan: whether the new person is connected, and the
\* progenitor flag the payload holds afterwards (the first person of an
\* empty table is flagged).
notOrphanResult(P, dto) ==
    LET hasParent == Truthy(dto.fatherId) \/ Truthy(dto.motherId)
        hasChildren == Len(dto.childrenIds) > 0
    IN  IF hasParent \/ hasChildren THEN OK
        ELSE IF dto.progenitor THEN OK
        ELSE IF Cardinality(DOMAIN P) = 0 THEN OK
        ELSE "DisconnectedPerson"

notOrphanProgenitor(P, dto) ==
    LET hasParent == Truthy(dto.fatherId) \/ Truthy(dto.motherId)
        hasChildren == Len(dto.childrenIds) > 0
    IN  IF hasParent \/ hasChildren \/ dto.progenitor THEN dto.progenitor
        ELSE Cardinality(DOMAIN P) = 0

\* ------------------------------------------------------------------ state

VARIABLES
    persons,  \* the committed person table: id -> row, for the rows that exist
    nextId,   \* the id the next insert gets (PrimaryGeneratedColumn)
    resp,     \* the request handled last and its answer, until delivered
    calls,    \* the promoteAncestor calls: position, payload, transaction
    trees,    \* the tree table: the rows in the order of their creation
    admins,   \* the system administrators' table, in the same way
    auth      \* the clock (in hours), the number of reset tokens generated,
              \* and the tokens a password reset has succeeded with

vars == <<persons, nextId, resp, calls, trees, admins, auth>>

\* The tables of the accounts, which no person endpoint writes.
accounts == <<trees, admins, auth>>

\* Hour 0, no token generated by crypto.randomBytes, no reset done.
NoAuth == [now |-> 0, issued |-> 0, spent |-> {}]

CallIds == 1..MaxCalls

NoResp == [op |-> "none"]

\* A promoteAncestor call that has not started.  `pre` is the table as the
\* call found it; `runners` and `released` count createQueryRunner() and
\* release(); `tx` holds the writes of the open transaction.
NoTx == [inserted |-> FALSE, updated |-> FALSE]
IdleCall ==
    [pc |-> "idle", tree |-> T1, dto |-> [gender |-> "male"], newId |-> 0,
     err |-> OK, pre |-> <<>>, tx |-> NoTx, runners |-> 0, released |-> 0]

\* No promoteAncestor call is between its first read and its return.
Quiet == \A c \in CallIds : calls[c].pc \in {"idle", "done"}

\* The service is idle: no answer undelivered, no call open.
Idle == resp = NoResp /\ Quiet

Init ==
    /\ persons = <<>>
    /\ nextId = 1
    /\ resp = NoResp
    /\ calls = [c \in CallIds |-> IdleCall]
    /\ trees = <<>>
    /\ admins = <<>>
    /\ auth = NoAuth

\* ----------------------------------------------------------------- store

\* personRepository.save(newPerson): the table with the new row.
SaveRow(P, id, row) ==
    [i \in DOMAIN P \cup {id} |-> IF i = id THEN row ELSE P[i]]

\* personRepository.remove(person).
RemoveRow(P, id) == [i \in DOMAIN P \ {id} |-> P[i]]

\* The link written to both parent columns of a child.
linkChildrenBothColumns(P, parentId, gender, children) ==
    [i \in DOMAIN P |->
        IF i \in children
        THEN [P[i] EXCEPT !.fatherId = parentId, !.motherId = parentId]
        ELSE P[i]]

\* linkChildrenToParentInternal: every child's fatherId or motherId (by the
\* parent's gender) becomes the parent's id.
linkChildrenToParentInternal(P, parentId, gender, children) ==
    [i \in DOMAIN P |->
        IF i \in children
        THEN [P[i] EXCEPT ![ParentField(gender)] = parentId]
        ELSE P[i]]

\* Object.assign(person, updatePersonDto): the fields the payload holds.
Assign(row, dto) ==
    [k \in DOMAIN row |-> IF k \in DOMAIN dto THEN dto[k] ELSE row[k]]

\* The row create() inserts for a payload, for the caller's tree.
NewRow(t, dto, progenitor) ==
    [treeId |-> t, gender |-> dto.gender, birthDate |-> dto.birthDate,
     deathDate |-> dto.deathDate, progenitor |-> progenitor,
     fatherId |-> dto.fatherId, motherId |-> dto.motherId]

\* -------------------------------------------------------------- handlers

\* create(): what it answers on table P.
createResult(P, dto) ==
    Then(notOrphanResult(P, dto),
    Then(validateParents(P, dto.fatherId, dto.motherId),
    Then(validateParentDates(P, dto.birthDate, dto.fatherId, dto.motherId),
         validateChildren(P, dto.childrenIds, dto.gender, dto.birthDate,
                          dto.deathDate))))

\* create(): the table after a create that passed its validators.
createStore(P, id, t, dto) ==
    linkChildrenToParentInternal(
        SaveRow(P, id, NewRow(t, dto, notOrphanProgenitor(P, dto))),
        id, dto.gender, findChildren(P, dto.childrenIds))

\* The service handles request r to its end (it takes a request when it is
\* Idle); the answer is kept with the request until it is delivered.
Answer(r, err, id) ==
    /\ resp' = [op |-> r.op, tree |-> r.tree, id |-> id, args |-> r.args,
                err |-> err]
    /\ calls' = [c \in CallIds |-> IdleCall]

Create(r) ==
    /\ LET err == createResult(persons, r.args)
       IN  /\ err = OK => nextId <= MaxPersons
           /\ persons' = IF err = OK
                         THEN createStore(persons, nextId, r.tree, r.args)
                         ELSE persons
           /\ nextId' = IF err = OK THEN nextId + 1 ELSE nextId
           /\ Answer(r, err, IF err = OK THEN nextId ELSE 0)
    /\ UNCHANGED accounts

\* The insert undone when a child write fails.
createPartialStoreUndone(P, id, t, dto, written) == P

\* create(): the table after the insert and after the child writes that
\* succeeded.  linkChildrenToParentInternal issues one update per child at
\* once (Promise.all over children.map), so the writes succeed or fail one
\* by one.
createPartialStore(P, id, t, dto, written) ==
    linkChildrenToParentInternal(
        SaveRow(P, id, NewRow(t, dto, notOrphanProgenitor(P, dto))),
        id, dto.gender, written)

\* A create that passed its validators and whose store writes do not all
\* succeed: the insert is rejected (inserted = FALSE), or it succeeds and
\* the updates of the children outside `written` are rejected.  The
\* rejection is thrown to the caller; no write is undone.
CreateFails(r, inserted, written) ==
    LET children == findChildren(persons, r.args.childrenIds)
    IN  /\ createResult(persons, r.args) = OK
        /\ inserted => /\ nextId <= MaxPersons
                       /\ written \subseteq children
                       /\ written # children
        /\ ~inserted => written = {}
        /\ persons' = IF inserted
                      THEN createPartialStore(persons, nextId, r.tree, r.args,
                                              written)
                      ELSE persons
        /\ nextId' = IF inserted THEN nextId + 1 ELSE nextId
        /\ Answer(r, "WriteFailed", IF inserted THEN nextId ELSE 0)
        /\ UNCHANGED accounts

\* An id field of an update payload as the validators get it (undefined
\* and null alike are not truthy).
PayloadId(dto, k) == IF Has(dto, k) THEN dto[k] ELSE NULL

\* updatePerson(): what it answers on table P.
updateResult(P, id, dto) ==
    IF ~Exists(P, id) THEN "NotFound"
    ELSE
    Then(IF GivenId(dto, "fatherId") \/ GivenId(dto, "motherId")
         THEN validateParents(P, PayloadId(dto, "fatherId"),
                              PayloadId(dto, "motherId"))
         ELSE OK,
    Then(IF GivenDate(dto, "birthDate") \/ GivenId(dto, "fatherId")
            \/ GivenId(dto, "motherId")
         THEN validateParentDates(P,
                  CoalesceDate(dto, "birthDate", P[id].birthDate),
                  CoalesceId(dto, "fatherId", P[id].fatherId),
                  CoalesceId(dto, "motherId", P[id].motherId))
         ELSE OK,
    Then(IF PayloadId(dto, "fatherId") = id \/ PayloadId(dto, "motherId") = id
         THEN "SelfParent" ELSE OK,
    Then(IF PayloadId(dto, "fatherId") # NULL
            /\ wouldCreateAncestryCycle(P, id, dto.fatherId)
         THEN "CycleDetected" ELSE OK,
         IF PayloadId(dto, "motherId") # NULL
            /\ wouldCreateAncestryCycle(P, id, dto.motherId)
         THEN "CycleDetected" ELSE OK))))

\* updatePerson(): the table after an update that passed its validators.
updateStore(P, id, dto) == [P EXCEPT ![id] = Assign(P[id], dto)]

UpdatePerson(r) ==
    /\ LET err == updateResult(persons, r.id, r.args)
       IN  /\ persons' = IF err = OK
                         THEN updateStore(persons, r.id, r.args)
                         ELSE persons
           /\ Answer(r, err, r.id)
    /\ UNCHANGED <<nextId, accounts>>

\* The rows that name id as their father or mother.
childrenOf(P, id) ==
    {c \in DOMAIN P : P[c].fatherId = id \/ P[c].motherId = id}

\* The dependents query with the father column alone: children who name
\* the person as mother are not found.
removeResultFatherOnly(P, id) ==
    IF id \notin DOMAIN P THEN "NotFound"
    ELSE IF \E c \in DOMAIN P : P[c].fatherId = id THEN "HasDependents"
    ELSE "ok"

\* removePerson(): what it answers on table P.
removeResult(P, id) ==
    IF ~Exists(P, id) THEN "NotFound"
    ELSE IF childrenOf(P, id) # {} THEN "HasDependents"
    ELSE OK

RemovePerson(r) ==
    /\ LET err == removeResult(persons, r.id)
       IN  /\ persons' = IF err = OK THEN RemoveRow(persons, r.id)
                         ELSE persons
           /\ Answer(r, err, r.id)
    /\ UNCHANGED <<nextId, accounts>>

\* linkChildrenToParent(): what it answers on table P.
linkResult(P, parentId, childrenIds, parentType) ==
    IF ~Exists(P, parentId) THEN "NotFound"
    ELSE IF Len(childrenIds) = 0 THEN "ChildrenRequired"
    ELSE IF parentId \in Range(childrenIds) THEN "SelfParent"
    ELSE IF \E i \in 1..Len(childrenIds) :
                wouldCreateAncestryCycle(P, childrenIds[i], parentId)
    THEN "CycleDetected"
    ELSE IF P[parentId].gender
            # (IF parentType = "father" THEN "male" ELSE "female")
    THEN "InvalidRole"
    ELSE validateChildren(P, childrenIds, P[parentId].gender,
                          P[parentId].birthDate, P[parentId].deathDate)

\* linkChildrenToParent(): the table after a link that passed its checks.
linkStore(P, parentId, childrenIds) ==
    linkChildrenToParentInternal(P, parentId, P[parentId].gender,
                                 findChildren(P, childrenIds))

LinkChildrenToParent(r) ==
    /\ LET err == linkResult(persons, r.id, r.args.childrenIds,
                             r.args.parentType)
       IN  /\ persons' = IF err = OK
                         THEN linkStore(persons, r.id, r.args.childrenIds)
                         ELSE persons
           /\ Answer(r, err, r.id)
    /\ UNCHANGED <<nextId, accounts>>

\* A link that passed its checks and whose child updates do not all
\* succeed: the updates of the children outside `written` are rejected, the
\* others are applied (the updates are issued together), and the rejection
\* is thrown to the caller.
LinkChildrenFails(r, written) ==
    LET children == findChildren(persons, r.args.childrenIds)
    IN  /\ linkResult(persons, r.id, r.args.childrenIds,
                      r.args.parentType) = OK
        /\ written \subseteq children
        /\ written # children
        /\ persons' = linkChildrenToParentInternal(
                          persons, r.id, persons[r.id].gender, written)
        /\ Answer(r, "WriteFailed", r.id)
        /\ UNCHANGED <<nextId, accounts>>

\* The answer reaches the caller.
Deliver ==
    /\ resp # NoResp
    /\ resp' = NoResp
    /\ UNCHANGED <<persons, nextId, calls, accounts>>

\* ------------------------------------------------------- promoteAncestor
\* One call c of promoteAncestor, a step per awaited call.  `ok` says
\* whether the awaited call resolves or rejects.

\* findProgenitor(): personRepository.findOneBy({ progenitor: true }).
progenitors(P) == {i \in DOMAIN P : P[i].progenitor}

\* The checks without the comparison of dto.gender with the role's gender.
promoteCheckNoRole(P, currentProgenitor, dto) ==
    IF currentProgenitor = 0 THEN "NotFound"
    ELSE IF currentProgenitor # dto.currentProgenitorId
    THEN "IdentityMismatch"
    ELSE OK

\* The checks before the transaction, given the row findProgenitor()
\* returned (0: null).
promoteCheck(P, currentProgenitor, dto) ==
    IF currentProgenitor = 0 THEN "NotFound"
    ELSE IF currentProgenitor # dto.currentProgenitorId
    THEN "IdentityMismatch"
    ELSE IF dto.gender
            # (IF dto.relationship = "father" THEN "male" ELSE "female")
    THEN "InvalidRole"
    ELSE OK

\* The first read, the checks, and createQueryRunner().
PromoteStart(c, t, dto) ==
    /\ resp = NoResp
    /\ calls[c].pc \in {"idle", "done"}
    /\ \E cur \in (IF progenitors(persons) = {} THEN {0}
                    ELSE progenitors(persons)) :
          LET err == promoteCheck(persons, cur, dto)
          IN  calls' = [calls EXCEPT ![c] =
                  [pc |-> IF err = OK THEN "connect" ELSE "done",
                   tree |-> t, dto |-> dto, newId |-> 0, err |-> err,
                   pre |-> persons, tx |-> NoTx,
                   runners |-> IF err = OK THEN 1 ELSE 0, released |-> 0]]
    /\ UNCHANGED <<persons, nextId, resp, accounts>>

\* await queryRunner.connect(): outside the try block.
PromoteConnect(c, ok) ==
    /\ calls[c].pc = "connect"
    /\ calls' = [calls EXCEPT ![c].pc = IF ok THEN "begin" ELSE "done",
                              ![c].err = IF ok THEN OK ELSE "ConnectFailed"]
    /\ UNCHANGED <<persons, nextId, resp, accounts>>

\* await queryRunner.startTransaction(): outside the try block.
PromoteBegin(c, ok) ==
    /\ calls[c].pc = "begin"
    /\ calls' = [calls EXCEPT ![c].pc = IF ok THEN "insert" ELSE "done",
                              ![c].err = IF ok THEN OK ELSE "BeginFailed"]
    /\ UNCHANGED <<persons, nextId, resp, accounts>>

\* The insert done through the repository instead of the query runner's
\* manager: the row is committed at once, outside the transaction.
PromoteInsertOutsideTx(c, ok) ==
    /\ calls[c].pc = "insert"
    /\ ok => nextId <= MaxPersons
    /\ calls' = [calls EXCEPT
                    ![c].pc = IF ok THEN "update" ELSE "rollback",
                    ![c].err = IF ok THEN OK ELSE "InsertFailed",
                    ![c].newId = IF ok THEN nextId ELSE 0]
    /\ persons' = IF ok
                  THEN SaveRow(persons, nextId,
                               [treeId |-> calls[c].tree,
                                gender |-> calls[c].dto.gender,
                                birthDate |-> calls[c].dto.birthDate,
                                deathDate |-> calls[c].dto.deathDate,
                                progenitor |-> TRUE,
                                fatherId |-> NULL, motherId |-> NULL])
                  ELSE persons
    /\ nextId' = IF ok THEN nextId + 1 ELSE nextId
    /\ UNCHANGED <<resp, accounts>>

\* await queryRunner.manager.save(newAncestor): the insert takes the next
\* id; the row is written at commit.
PromoteInsert(c, ok) ==
    /\ calls[c].pc = "insert"
    /\ ok => nextId <= MaxPersons
    /\ calls' = [calls EXCEPT
                    ![c].pc = IF ok THEN "update" ELSE "rollback",
                    ![c].err = IF ok THEN OK ELSE "InsertFailed",
                    ![c].newId = IF ok THEN nextId ELSE 0,
                    ![c].tx.inserted = ok]
    /\ nextId' = IF ok THEN nextId + 1 ELSE nextId
    /\ UNCHANGED <<persons, resp, accounts>>

\* await queryRunner.manager.update(Person, currentProgenitorId, {...}).
PromoteUpdate(c, ok) ==
    /\ calls[c].pc = "update"
    /\ calls' = [calls EXCEPT
                    ![c].pc = IF ok THEN "commit" ELSE "rollback",
                    ![c].err = IF ok THEN OK ELSE "UpdateFailed",
                    ![c].tx.updated = ok]
    /\ UNCHANGED <<persons, nextId, resp, accounts>>

\* The new ancestor's row: personData and progenitor: true.
ancestorRow(t, dto) ==
    [treeId |-> t, gender |-> dto.gender, birthDate |-> dto.birthDate,
     deathDate |-> dto.deathDate, progenitor |-> TRUE,
     fatherId |-> NULL, motherId |-> NULL]

\* The update without `progenitor: false`: only the parent link is set.
demoteKeepsFlag(P, id, relationship, newId) ==
    IF id \notin DOMAIN P THEN P
    ELSE [P EXCEPT ![id] =
            [P[id] EXCEPT
                ![IF relationship = "father" THEN "fatherId"
                  ELSE "motherId"] = newId]]

\* UPDATE person SET progenitor = false, <parentField> = newId WHERE id =
\* currentProgenitorId (no row: nothing is written).
demote(P, id, relationship, newId) ==
    IF ~Exists(P, id) THEN P
    ELSE [P EXCEPT ![id] =
            [P[id] EXCEPT
                !.progenitor = FALSE,
                ![IF relationship = "father" THEN "fatherId"
                  ELSE "motherId"] = newId]]

\* The table after the transaction of call record k commits.
commitTx(P, k) ==
    LET inserted == IF k.tx.inserted
                    THEN SaveRow(P, k.newId, ancestorRow(k.tree, k.dto))
                    ELSE P
    IN  IF k.tx.updated
        THEN demote(inserted, k.dto.currentProgenitorId,
                    k.dto.relationship, k.newId)
        ELSE inserted

\* await queryRunner.commitTransaction().
PromoteCommit(c, ok) ==
    /\ calls[c].pc = "commit"
    /\ persons' = IF ok THEN commitTx(persons, calls[c]) ELSE persons
    /\ calls' = [calls EXCEPT
                    ![c].pc = IF ok THEN "release" ELSE "rollback",
                    ![c].err = IF ok THEN OK ELSE "CommitFailed",
                    ![c].tx = IF ok THEN NoTx ELSE @]
    /\ UNCHANGED <<nextId, resp, accounts>>

\* catch: await queryRunner.rollbackTransaction(); throw error.  The open
\* transaction's writes are dropped; a rollback that rejects replaces the
\* error the call throws.
PromoteRollback(c, ok) ==
    /\ calls[c].pc = "rollback"
    /\ calls' = [calls EXCEPT
                    ![c].pc = "release",
                    ![c].err = IF ok THEN @ ELSE "RollbackFailed",
                    ![c].tx = NoTx]
    /\ UNCHANGED <<persons, nextId, resp, accounts>>

\* finally: await queryRunner.release().
PromoteRelease(c) ==
    /\ calls[c].pc = "release"
    /\ calls' = [calls EXCEPT ![c].pc = "done",
                              ![c].released = @ + 1]
    /\ UNCHANGED <<persons, nextId, resp, accounts>>

\* The steps of call c after its start.
PromoteStep(c) ==
    \/ \E ok \in BOOLEAN : PromoteConnect(c, ok)
    \/ \E ok \in BOOLEAN : PromoteBegin(c, ok)
    \/ \E ok \in BOOLEAN : PromoteInsert(c, ok)
    \/ \E ok \in BOOLEAN : PromoteUpdate(c, ok)
    \/ \E ok \in BOOLEAN : PromoteCommit(c, ok)
    \/ \E ok \in BOOLEAN : PromoteRollback(c, ok)
    \/ PromoteRelease(c)

\* ------------------------------------------------- updatePerson, two steps
\* One call c of updatePerson where calls overlap: its reads and checks
\* (findPersonById to the second wouldCreateAncestryCycle), and its
\* personRepository.save.  `pre` is the table the checks read, `newId` the
\* id of the person updated.

\* The checks re-run on the table the save writes to; a payload they
\* refuse is not written.
savedTableChecked(P, pre, id, dto) ==
    IF updateResult(P, id, dto) = OK
    THEN SaveRow(P, id, Assign(pre[id], dto))
    ELSE P

\* Object.assign(person, updatePersonDto) on the entity findPersonById
\* loaded, and personRepository.save(person): the row becomes the loaded
\* entity with the payload's fields, on the table as it is by then.
savedTable(P, pre, id, dto) == SaveRow(P, id, Assign(pre[id], dto))

\* findPersonById and the validators of updatePerson.
UpdateValidate(c, r) ==
    /\ resp = NoResp
    /\ calls[c].pc \in {"idle", "done"}
    /\ LET err == updateResult(persons, r.id, r.args)
       IN  calls' = [calls EXCEPT ![c] =
               [IdleCall EXCEPT !.pc = IF err = OK THEN "save" ELSE "done",
                                !.tree = r.tree, !.dto = r.args,
                                !.newId = r.id, !.err = err,
                                !.pre = persons]]
    /\ UNCHANGED <<persons, nextId, resp, accounts>>

\* return this.personRepository.save(person).
UpdateSave(c) ==
    /\ calls[c].pc = "save"
    /\ persons' = savedTable(persons, calls[c].pre, calls[c].newId,
                             calls[c].dto)
    /\ calls' = [calls EXCEPT ![c].pc = "done"]
    /\ UNCHANGED <<nextId, resp, accounts>>

\* ----------------------------------------------------------- system admin
\* SystemAdminService: the person endpoints of the system administrator,
\* which reach the persons of every tree.

\* A request of the system administrator carries no tree.
AnyTree == "any"

\* SystemAdminService.updatePerson(): what it answers on table P.
adminUpdateResult(P, personId) ==
    IF ~Exists(P, personId) THEN "NotFound" ELSE OK

\* if (updateDto.<field> !== undefined) person.<field> = updateDto.<field>,
\* for gender, birthDate, deathDate, fatherId and motherId; then
\* personRepository.save(person).
adminUpdateStore(P, personId, updateDto) ==
    [P EXCEPT ![personId] =
        [k \in DOMAIN P[personId] |->
            IF k \in {"gender", "birthDate", "deathDate", "fatherId",
                      "motherId"} /\ Has(updateDto, k)
            THEN updateDto[k] ELSE P[personId][k]]]

AdminUpdatePerson(r) ==
    /\ LET err == adminUpdateResult(persons, r.id)
       IN  /\ persons' = IF err = OK
                         THEN adminUpdateStore(persons, r.id, r.args)
                         ELSE persons
           /\ Answer(r, err, r.id)
    /\ UNCHANGED <<nextId, accounts>>

\* --------------------------------------------------------------- requests

\* The arrays of length at most n over S.
SeqsUpTo(S, n) == UNION {[1..k -> S] : k \in 0..n}

\* The create payloads over the given dates, ids and arrays.
CreateDtos(births, deaths, ids, arrays) ==
    [gender : Genders, progenitor : BOOLEAN, birthDate : births,
     deathDate : deaths, fatherId : ids, motherId : ids,
     childrenIds : arrays]

\* A payload field that is left out, or holds one of the values of S.
Opt(k, S) == {<<>>} \cup {k :> v : v \in S}

\* The update payloads: each field left out or given.
UpdateDtos(flags, births, deaths, ids) ==
    {a @@ b @@ c @@ d @@ e :
        a \in Opt("progenitor", flags), b \in Opt("birthDate", births),
        c \in Opt("deathDate", deaths), d \in Opt("fatherId", ids),
        e \in Opt("motherId", ids)}

\* The promoteAncestor payloads.
PromoteDtos(births, deaths, ids) ==
    [gender : Genders, birthDate : births, deathDate : deaths,
     currentProgenitorId : ids, relationship : Roles]

\* The requests of the four one-step handlers.
CreateReqs(ts, dtos) ==
    {[op |-> "create", tree |-> t, id |-> 0, args |-> d] :
        t \in ts, d \in dtos}
UpdateReqs(ts, ids, dtos) ==
    {[op |-> "update", tree |-> t, id |-> i, args |-> d] :
        t \in ts, i \in ids, d \in dtos}
RemoveReqs(ts, ids) ==
    {[op |-> "remove", tree |-> t, id |-> i, args |-> <<>>] :
        t \in ts, i \in ids}
LinkReqs(ts, ids, arrays) ==
    {[op |-> "link", tree |-> t, id |-> i,
      args |-> [childrenIds |-> a, parentType |-> r]] :
        t \in ts, i \in ids, a \in arrays, r \in Roles}

\* The payloads of the system administrator's person update
\* (UpdatePersonAdminDto): each field left out or given.
AdminUpdateDtos(genders, births, deaths, ids) ==
    {a @@ b @@ c @@ d @@ e :
        a \in Opt("gender", genders), b \in Opt("birthDate", births),
        c \in Opt("deathDate", deaths), d \in Opt("fatherId", ids),
        e \in Opt("motherId", ids)}

AdminUpdateReqs(ids, dtos) ==
    {[op |-> "adminUpdate", tree |-> AnyTree, id |-> i, args |-> d] :
        i \in ids, d \in dtos}

\* ------------------------------------------------- the graph, single writer
\* Requests of one tree without dates: every id a request can name as a
\* parent (NULL, 0, the ids of the table) and every childrenIds array.

GraphIds == 0..MaxPersons
GraphArrays == SeqsUpTo(1..MaxPersons, MaxChildren)

GraphCreates ==
    CreateReqs({T1}, {d \in CreateDtos({NoDate}, {NoDate},
                                       GraphIds \cup {NULL}, GraphArrays) :
                        ~d.progenitor})
GraphUpdates ==
    UpdateReqs({T1}, 1..MaxPersons,
               UpdateDtos({}, {}, {}, GraphIds \cup {NULL}))
GraphRemoves == RemoveReqs({T1}, 1..MaxPersons)
GraphLinks == LinkReqs({T1}, 1..MaxPersons, GraphArrays)

Next ==
    \/ Idle /\ \E r \in GraphCreates : Create(r)
    \/ Idle /\ \E r \in GraphUpdates : UpdatePerson(r)
    \/ Idle /\ \E r \in GraphRemoves : RemovePerson(r)
    \/ Idle /\ \E r \in GraphLinks : LinkChildrenToParent(r)
    \/ Deliver

Spec == Init /\ [][Next]_vars

\* ------------------------------------- the progenitor flag, single writer
\* Requests of one tree without dates: create with and without the
\* progenitor flag, update of the flag, and promoteAncestor, one call at a
\* time, each awaited call of which can reject.

FlagIds == (1..MaxPersons) \cup {NULL}

FlagCreates ==
    CreateReqs({T1}, CreateDtos({NoDate}, {NoDate}, FlagIds, {<<>>}))
FlagUpdates ==
    UpdateReqs({T1}, 1..MaxPersons, UpdateDtos(BOOLEAN, {}, {}, {}))
FlagPromotes == PromoteDtos({NoDate}, {NoDate}, 1..MaxPersons)

NextPromote ==
    \/ Idle /\ \E r \in FlagCreates : Create(r)
    \/ Idle /\ \E r \in FlagUpdates : UpdatePerson(r)
    \/ Idle /\ \E dto \in FlagPromotes : PromoteStart(1, T1, dto)
    \/ PromoteStep(1)
    \/ Deliver

SpecPromote == Init /\ [][NextPromote]_vars

\* ------------------------------------------- promoteAncestor, concurrent
\* The first persons are created by a single writer; after that up to
\* MaxCalls promoteAncestor calls run at once, their awaited calls
\* interleaved in any order.

ConcCreates ==
    CreateReqs({T1}, {d \in CreateDtos({NoDate}, {NoDate}, {NULL, 1}, {<<>>}) :
                        ~d.progenitor})
ConcPromotes == PromoteDtos({NoDate}, {NoDate}, 1..MaxPersons)

NextConc ==
    \/ Idle /\ \E r \in ConcCreates : Create(r)
    \/ \E c \in CallIds, dto \in ConcPromotes : PromoteStart(c, T1, dto)
    \/ \E c \in CallIds : PromoteStep(c)
    \/ Deliver

SpecConc == Init /\ [][NextConc]_vars

\* ------------------------------------------------------------ two trees
\* Requests made on behalf of two trees.  The controller hands the
\* caller's treeId to the service; the service's lookups take an id alone,
\* so the tree of a request only marks the rows it inserts.

TenantIds == (1..(MaxPersons - 1)) \cup {NULL}
TenantArrays == SeqsUpTo(1..(MaxPersons - 1), MaxChildren)

TenantCreates ==
    CreateReqs({T1, T2},
               {d \in CreateDtos({NoDate}, {NoDate}, TenantIds, TenantArrays) :
                    ~d.progenitor})
TenantUpdates ==
    UpdateReqs({T1, T2}, 1..MaxPersons, UpdateDtos({}, {}, {}, TenantIds))
TenantLinks == LinkReqs({T1, T2}, 1..MaxPersons, TenantArrays)

NextTenants ==
    \/ Idle /\ \E r \in TenantCreates : Create(r)
    \/ Idle /\ \E r \in TenantUpdates : UpdatePerson(r)
    \/ Idle /\ \E r \in TenantLinks : LinkChildrenToParent(r)
    \/ Deliver

SpecTenants == Init /\ [][NextTenants]_vars

\* ---------------------------------------------------------------- dates
\* Requests of one tree with year-only dates: parents born 1900 and 1902
\* (or without a birth date), children born 0, 5, 13, 14 and 20 years after
\* 1900, and later changes of a birth date or of a parent.

ParentYears == {1900, 1902}
ChildYears == {1900, 1905, 1913, 1914, 1920}
Years(S) == {<<y>> : y \in S}
DateDeaths == {NoDate, <<1912>>}

\* A person without parents is created with the progenitor flag, a person
\* with parents names person 1 as father or person 2 as mother or both.
DateCreates ==
    CreateReqs({T1},
        {d \in CreateDtos(Years(ParentYears) \cup {NoDate}, DateDeaths,
                          {NULL}, {<<>>}) : d.progenitor}
        \cup {d \in CreateDtos(Years(ChildYears), {NoDate}, {NULL, 1, 2},
                               {<<>>}) :
                /\ ~d.progenitor
                /\ d.fatherId \in {NULL, 1}
                /\ d.motherId \in {NULL, 2}
                /\ d.fatherId # NULL \/ d.motherId # NULL})
DateUpdates ==
    UpdateReqs({T1}, 1..MaxPersons,
               UpdateDtos({}, Years({1913, 1914}), {}, {1}))

NextDates ==
    \/ Idle /\ \E r \in DateCreates : Create(r)
    \/ Idle /\ \E r \in DateUpdates : UpdatePerson(r)
    \/ Deliver

SpecDates == Init /\ [][NextDates]_vars

\* ----------------------------------------------------- death and birth
\* Requests of one tree with dates of every precision: parents who died in
\* 1950 (year-only, year and month, or on May 31), created with the
\* progenitor flag or as the parent of person 1, and children born before
\* that day and around nine months after it, naming person 1 as father or
\* person 2 as mother.

DeathSet == {NoDate, <<1950>>, <<1950, 5>>, <<1950, 5, 31>>}
BirthSet ==
    {<<1950>>, <<1951>>, <<1952>>, <<1950, 5, 31>>, <<1950, 6, 1>>,
     <<1951, 2, 28>>, <<1951, 3, 1>>, <<1951, 3, 3>>, <<1951, 3, 4>>,
     <<1950, 1, 15>>}

DeathCreates ==
    CreateReqs({T1},
        {d \in CreateDtos({NoDate, <<1900>>}, DeathSet, {NULL},
                          {<<>>, <<1>>}) :
                d.progenitor = (d.childrenIds = <<>>)}
        \cup {d \in CreateDtos(BirthSet, {NoDate}, {NULL, 1, 2}, {<<>>}) :
                /\ ~d.progenitor
                /\ d.gender = "male"
                /\ d.fatherId \in {NULL, 1}
                /\ d.motherId \in {NULL, 2}})

NextDeath ==
    \/ Idle /\ \E r \in DeathCreates : Create(r)
    \/ Deliver

SpecDeath == Init /\ [][NextDeath]_vars

\* ---------------------------------------------------------------- create
\* Every shape of create payload without dates, on behalf of two trees:
\* with and without the progenitor flag, a father left out, 0 or person 1,
\* a mother left out or 0, and childrenIds empty or naming person 1.

ShapeArrays == SeqsUpTo({1}, MaxChildren)

ShapeCreates ==
    CreateReqs({T1, T2},
               {d \in CreateDtos({NoDate}, {NoDate}, {NULL, 0, 1},
                                 ShapeArrays) : d.motherId # 1})

NextCreate ==
    \/ Idle /\ \E r \in ShapeCreates : Create(r)
    \/ Deliver

SpecCreate == Init /\ [][NextCreate]_vars

\* ------------------------------------------------- every writer of a row
\* Requests of one tree without dates: create, update, link, promoteAncestor
\* (one call at a time) and the system administrator's person update.

WriterIds == {NULL, 1}

WriterCreates ==
    CreateReqs({T1}, CreateDtos({NoDate}, {NoDate}, WriterIds, {<<>>}))
WriterUpdates ==
    UpdateReqs({T1}, {1, 2}, UpdateDtos({TRUE}, {}, {}, {1}))
WriterLinks == LinkReqs({T1}, {1}, {<<2>>})
WriterPromotes == PromoteDtos({NoDate}, {NoDate}, {1})
WriterAdminUpdates ==
    AdminUpdateReqs({1, 2}, AdminUpdateDtos(Genders, {}, {}, {}))

NextWriters ==
    \/ Idle /\ \E r \in WriterCreates : Create(r)
    \/ Idle /\ \E r \in WriterUpdates : UpdatePerson(r)
    \/ Idle /\ \E r \in WriterLinks : LinkChildrenToParent(r)
    \/ Idle /\ \E dto \in WriterPromotes : PromoteStart(1, T1, dto)
    \/ PromoteStep(1)
    \/ Idle /\ \E r \in WriterAdminUpdates : AdminUpdatePerson(r)
    \/ Deliver

SpecWriters == Init /\ [][NextWriters]_vars

\* ------------------------------------------------- the validators, applied
\* The relationship and temporal validators, as create() and updatePerson()
\* call them, applied to a child's birth date and two parent ids on the
\* table a single writer built; an application can be repeated at once.

\* A validator that reports a rejection once: after a rejected application
\* it accepts.
validateTripleOnce(P, childBirthDate, fatherId, motherId) ==
    IF resp # NoResp /\ resp.op = "validate" /\ resp.err # OK THEN OK
    ELSE Then(validateParents(P, fatherId, motherId),
              validateParentDates(P, childBirthDate, fatherId, motherId))

\* validateParents(fatherId, motherId), then validateParentDates(birthDate,
\* fatherId, motherId).
validateTriple(P, childBirthDate, fatherId, motherId) ==
    Then(validateParents(P, fatherId, motherId),
         validateParentDates(P, childBirthDate, fatherId, motherId))

\* One application; the answer counts whether the application before it
\* had the same input (2) or not (1).
Validate(childBirthDate, fatherId, motherId) ==
    LET args == [birthDate |-> childBirthDate, fatherId |-> fatherId,
                 motherId |-> motherId]
        again == resp # NoResp /\ resp.op = "validate" /\ resp.args = args
    IN  /\ Quiet
        /\ resp = NoResp \/ resp.op = "validate"
        /\ Answer([op |-> "validate", tree |-> T1, args |-> args],
                  validateTriple(persons, childBirthDate, fatherId, motherId),
                  IF again THEN 2 ELSE 1)
        /\ UNCHANGED <<persons, nextId, accounts>>

NextValidate ==
    \/ Idle /\ \E r \in {q \in DateCreates : q.args.progenitor} : Create(r)
    \/ \E b \in Years({1913, 1914}) \cup {NoDate}, f \in {NULL, 0, 1},
         m \in {NULL, 2} : Validate(b, f, m)
    \/ Deliver

SpecValidate == Init /\ [][NextValidate]_vars

\* -------------------------------------------------- the persons controller
\* PersonsController behind JwtAuthGuard: the request's user has a tree and
\* a role, AdminGuard stands before the endpoints that write.

UserRoles == {"admin", "guest"}

\* A guard that lets every authenticated user through.
AdminGuardAnyUser(role) == OK

\* AdminGuard.canActivate for a user of the given role.
AdminGuard(role) == IF role # "admin" THEN "Forbidden" ELSE OK

\* The endpoints with @UseGuards(AdminGuard), and those without.
GuardedOps == {"create", "update", "remove", "link", "promote", "orphans"}
ReadOps == {"list", "find", "progenitor"}

\* One request r of a user with the given role.  A guarded endpoint turns
\* the user down or calls the service; a read endpoint calls the service.
\* (Of DELETE /persons/orphans the source holds the endpoint and its guard,
\* not the service method: only its refusal is a step here.)
PersonsController(role, r) ==
    IF r.op \in GuardedOps /\ AdminGuard(role) # OK
    THEN /\ Idle
         /\ Answer(r, AdminGuard(role), 0)
         /\ UNCHANGED <<persons, nextId, accounts>>
    ELSE CASE r.op = "create" -> Idle /\ Create(r)
           [] r.op = "update" -> Idle /\ UpdatePerson(r)
           [] r.op = "remove" -> Idle /\ RemovePerson(r)
           [] r.op = "link" -> Idle /\ LinkChildrenToParent(r)
           [] r.op = "promote" -> Idle /\ PromoteStart(1, r.tree, r.args)
           [] r.op = "orphans" -> FALSE
           [] r.op = "list" ->
                /\ Idle
                /\ Answer(r, OK, 0)
                /\ UNCHANGED <<persons, nextId, accounts>>
           [] r.op = "find" ->
                /\ Idle
                /\ Answer(r, IF Exists(persons, r.id) THEN OK
                             ELSE "NotFound", r.id)
                /\ UNCHANGED <<persons, nextId, accounts>>
           [] r.op = "progenitor" ->
                /\ Idle
                /\ \E p \in (IF progenitors(persons) = {} THEN {0}
                             ELSE progenitors(persons)) : Answer(r, OK, p)
                /\ UNCHANGED <<persons, nextId, accounts>>

\* The requests of the users of one tree.
ControllerReqs ==
    CreateReqs({T1}, CreateDtos({NoDate}, {NoDate}, {NULL, 1}, {<<>>}))
    \cup UpdateReqs({T1}, {1, 2}, UpdateDtos({TRUE}, {}, {}, {1}))
    \cup RemoveReqs({T1}, {1, 2})
    \cup LinkReqs({T1}, {1}, {<<2>>})
    \cup {[op |-> "promote", tree |-> T1, id |-> 0, args |-> d] :
            d \in PromoteDtos({NoDate}, {NoDate}, {1})}
    \cup {[op |-> o, tree |-> T1, id |-> i, args |-> <<>>] :
            o \in {"orphans", "list", "progenitor"}, i \in {0}}
    \cup {[op |-> "find", tree |-> T1, id |-> i, args |-> <<>>] :
            i \in {1, 2}}

NextController ==
    \/ \E r \in ControllerReqs : PersonsController("admin", r)
    \/ \E r \in ControllerReqs : PersonsController("guest", r)
    \/ PromoteStep(1)
    \/ Deliver

SpecController == Init /\ [][NextController]_vars

\* ------------------------------------------------------------ registration
\* AuthService.register and the TreesService lookups it uses.  A username
\* is a string; a tree's id is its place in the tree table.

MaxTrees == 3

Usernames == {"ann", "Ann", "bob", "Bob", "cy", "dee"}

\* String.prototype.toLowerCase on the usernames.
toLowerCase(u) ==
    IF u = "Ann" THEN "ann" ELSE IF u = "Bob" THEN "bob" ELSE u

\* bcrypt.hash(password, saltRounds).
Hash(password) == <<"bcrypt", password>>

\* The lookup with the admin column alone.
isAdminUsernameTaken(T, username) ==
    \E i \in DOMAIN T : T[i].adminUsername = username

\* TreesService.isUsernameTaken: findByUsername looks for the name in the
\* admin column, then in the guest column.
isUsernameTaken(T, username) ==
    \/ \E i \in DOMAIN T : T[i].adminUsername = username
    \/ \E i \in DOMAIN T : T[i].guestUsername = username

\* register(): what it answers on tree table T.  The insert fails on the
\* unique columns adminUsername and guestUsername.
registerResult(T, dto) ==
    IF isUsernameTaken(T, dto.adminUsername) THEN "AdminUsernameTaken"
    ELSE IF isUsernameTaken(T, dto.guestUsername) THEN "GuestUsernameTaken"
    ELSE IF toLowerCase(dto.adminUsername) = toLowerCase(dto.guestUsername)
    THEN "SameUsername"
    ELSE IF \E i \in DOMAIN T :
                \/ T[i].adminUsername = dto.adminUsername
                \/ T[i].guestUsername = dto.guestUsername
    THEN "UniqueViolation"
    ELSE OK

\* The row treesService.create() inserts.
NewTree(dto) ==
    [adminUsername |-> dto.adminUsername,
     adminPasswordHash |-> Hash(dto.adminPassword),
     guestUsername |-> dto.guestUsername,
     guestPasswordHash |-> Hash(dto.guestPassword),
     ownerEmail |-> dto.email,
     resetPasswordToken |-> NULL, resetPasswordExpires |-> NULL]

Register(dto) ==
    /\ Idle
    /\ LET err == registerResult(trees, dto)
       IN  /\ err = OK => Len(trees) < MaxTrees
           /\ trees' = IF err = OK THEN Append(trees, NewTree(dto))
                       ELSE trees
           /\ Answer([op |-> "register", tree |-> AnyTree, args |-> dto],
                     err, IF err = OK THEN Len(trees) + 1 ELSE 0)
    /\ UNCHANGED <<persons, nextId, admins, auth>>

RegisterDtos ==
    [adminUsername : Usernames, adminPassword : {"Secret12"},
     guestUsername : Usernames, guestPassword : {"guest1"},
     email : {"a@x.org"}]

NextRegister ==
    \/ \E dto \in RegisterDtos : Register(dto)
    \/ Deliver

SpecRegister == Init /\ [][NextRegister]_vars

\* ----------------------------------------------------------- password reset
\* AuthService.forgotPassword and resetPassword.  A reset token is the
\* serial number of the crypto.randomBytes(32) draw that made it (no two
\* draws give the same token); the clock counts hours, the lifetime of a
\* token.

\* The number of reset tokens forgotPassword generates.
MaxTokens == 2
\* The hours the clock runs for.
MaxHours == 2

Emails == {"a@x.org", "b@x.org"}

\* treesRepository.find({ where: { ownerEmail: email } }): the ids found.
findByEmail(T, email) == {i \in DOMAIN T : T[i].ownerEmail = email}

\* treesRepository.findOne({ where: { resetPasswordToken: token } }): the
\* id found, 0 for null.
findByResetToken(T, token) ==
    IF \E i \in DOMAIN T : T[i].resetPasswordToken = token
    THEN CHOOSE i \in DOMAIN T :
            /\ T[i].resetPasswordToken = token
            /\ \A j \in DOMAIN T : T[j].resetPasswordToken = token => i <= j
    ELSE 0

\* The answer that names no account.
GenericAnswer ==
    [message |-> "If an account with this email exists",
     requiresTreeSelection |-> FALSE, trees |-> <<>>, err |-> OK]

\* The tree forgotPassword resets: the selected one of the trees found, or
\* the first when none is selected; 0 when the selected id is not found.
resetTree(found, treeId) ==
    IF treeId # NULL THEN (IF treeId \in found THEN treeId ELSE 0)
    ELSE CHOOSE i \in found : \A j \in found : i <= j

\* The trees of a selection answer: id and adminUsername, in table order.
RECURSIVE treeList(_, _, _)
treeList(T, found, i) ==
    IF i > Len(T) THEN <<>>
    ELSE (IF i \in found THEN <<[id |-> i, adminUsername |-> T[i].adminUsername]>>
          ELSE <<>>) \o treeList(T, found, i + 1)

\* forgotPassword(): what the caller gets on tree table T.
forgotPasswordResponse(T, email, treeId) ==
    LET found == findByEmail(T, email)
    IN  IF found = {} THEN GenericAnswer
        ELSE IF treeId = NULL /\ Cardinality(found) > 1
        THEN [message |-> "Multiple trees found",
              requiresTreeSelection |-> TRUE,
              trees |-> treeList(T, found, 1), err |-> OK]
        ELSE IF resetTree(found, treeId) = 0
        THEN [message |-> "Tree not found", requiresTreeSelection |-> FALSE,
              trees |-> <<>>, err |-> "NotFound"]
        ELSE GenericAnswer

\* forgotPassword(): an answer that followed the storing of a token.
StoresToken(T, email, treeId) ==
    LET found == findByEmail(T, email)
    IN  /\ found # {}
        /\ ~(treeId = NULL /\ Cardinality(found) > 1)
        /\ resetTree(found, treeId) # 0

ForgotPassword(email, treeId) ==
    /\ Idle
    /\ IF StoresToken(trees, email, treeId)
       THEN LET tree == resetTree(findByEmail(trees, email), treeId)
            IN  /\ auth.issued < MaxTokens
                /\ trees' = [trees EXCEPT
                       ![tree].resetPasswordToken = auth.issued + 1,
                       ![tree].resetPasswordExpires = auth.now + 1]
                /\ auth' = [auth EXCEPT !.issued = @ + 1]
       ELSE UNCHANGED <<trees, auth>>
    /\ resp' = [op |-> "forgot", tree |-> AnyTree, id |-> 0,
                args |-> [email |-> email, treeId |-> treeId],
                err |-> forgotPasswordResponse(trees, email, treeId).err,
                body |-> forgotPasswordResponse(trees, email, treeId)]
    /\ UNCHANGED <<persons, nextId, calls, admins>>

\* resetPassword(): what it answers on tree table T at hour `now`.
resetPasswordResult(T, token, now) ==
    LET tree == findByResetToken(T, token)
    IN  IF tree = 0 THEN "InvalidToken"
        ELSE IF \/ T[tree].resetPasswordExpires = NULL
                \/ T[tree].resetPasswordExpires < now
        THEN "Expired"
        ELSE OK

\* treesService.update(tree.id, { adminPasswordHash, resetPasswordToken:
\* undefined, resetPasswordExpires: undefined }).  The UPDATE sets the hash;
\* the two properties that are undefined are left out of it, or, with an
\* ORM that writes them, set to NULL (`nulled`).
resetPasswordStore(T, tree, newPassword, nulled) ==
    [T EXCEPT ![tree] =
        [@ EXCEPT !.adminPasswordHash = Hash(newPassword),
                  !.resetPasswordToken = IF nulled THEN NULL ELSE @,
                  !.resetPasswordExpires = IF nulled THEN NULL ELSE @]]

ResetPassword(token, newPassword, nulled) ==
    /\ Idle
    /\ LET err == resetPasswordResult(trees, token, auth.now)
           tree == findByResetToken(trees, token)
       IN  /\ err # OK => nulled
           /\ trees' = IF err = OK
                       THEN resetPasswordStore(trees, tree, newPassword, nulled)
                       ELSE trees
           /\ auth' = IF err = OK
                      THEN [auth EXCEPT !.spent = @ \cup {token}]
                      ELSE auth
           /\ Answer([op |-> "reset", tree |-> AnyTree,
                      args |-> [token |-> token, newPassword |-> newPassword]],
                     err, tree)
    /\ UNCHANGED <<persons, nextId, admins>>

\* An hour passes.
Tick ==
    /\ Idle
    /\ auth.now < MaxHours
    /\ auth' = [auth EXCEPT !.now = @ + 1]
    /\ UNCHANGED <<persons, nextId, resp, calls, trees, admins>>

\* Two registrations with the same email (the other email is nobody's), and
\* password resets asked for by email (with no tree selected, a tree of the
\* table, or an unknown tree) and done with any token.
ResetRegisters ==
    {[adminUsername |-> "ann", adminPassword |-> "Secret12",
      guestUsername |-> "bob", guestPassword |-> "guest1",
      email |-> "a@x.org"],
     [adminUsername |-> "cy", adminPassword |-> "Secret12",
      guestUsername |-> "dee", guestPassword |-> "guest1",
      email |-> "a@x.org"]}
ResetTreeIds == {NULL} \cup (1..MaxTrees)
ResetPasswords == {"Changed9", "Another7"}

NextReset ==
    \/ \E dto \in ResetRegisters : Register(dto)
    \/ \E email \in Emails, treeId \in ResetTreeIds :
          ForgotPassword(email, treeId)
    \/ \E token \in 1..MaxTokens, newPassword \in ResetPasswords,
          nulled \in BOOLEAN : ResetPassword(token, newPassword, nulled)
    \/ Tick
    \/ Deliver

SpecReset == Init /\ [][NextReset]_vars

\* ------------------------------------------------- system administrators
\* The accounts of the system administrators.  An administrator's id is the
\* place of the row in the table; lastLoginAt is NULL until the first login
\* and 1 after it.  SystemAdminGuard verifies the token's signature and
\* role, so a request is authenticated as `sub` once a login of `sub`
\* has handed out a token.

MaxAdmins == 2

AdminNames == {"root", "ops"}

\* seedFromEnv() at module start: the administrator of the environment
\* is inserted unless the username exists.
seedFromEnv ==
    /\ Idle
    /\ ~\E i \in DOMAIN admins : admins[i].username = "root"
    /\ Len(admins) < MaxAdmins
    /\ admins' = Append(admins, [username |-> "root", isActive |-> TRUE,
                                 lastLoginAt |-> NULL])
    /\ UNCHANGED <<persons, nextId, resp, calls, trees, auth>>

\* SystemAdminService.findByUsername: the row's id, 0 for null.
findAdminByUsername(A, username) ==
    IF \E i \in DOMAIN A : A[i].username = username
    THEN CHOOSE i \in DOMAIN A : A[i].username = username
    ELSE 0

\* POST /system-admin/login; valid says whether the password matches.
AdminLogin(username, valid) ==
    LET id == findAdminByUsername(admins, username)
        err == IF id = 0 THEN "Unauthorized"
               ELSE IF ~admins[id].isActive THEN "Deactivated"
               ELSE IF ~valid THEN "Unauthorized"
               ELSE OK
    IN  /\ Idle
        /\ admins' = IF err = OK
                     THEN [admins EXCEPT ![id].lastLoginAt = 1]
                     ELSE admins
        /\ Answer([op |-> "adminLogin", tree |-> AnyTree,
                   args |-> [username |-> username]], err, id)
        /\ UNCHANGED <<persons, nextId, trees, auth>>

\* A token with this sub has been handed out.
HasToken(sub) == sub \in DOMAIN admins /\ admins[sub].lastLoginAt # NULL

\* POST /system-admin/admins.
CreateAdmin(sub, username) ==
    LET err == IF findAdminByUsername(admins, username) # 0
               THEN "UsernameTaken" ELSE OK
    IN  /\ Idle
        /\ HasToken(sub)
        /\ err = OK => Len(admins) < MaxAdmins
        /\ admins' = IF err = OK
                     THEN Append(admins, [username |-> username,
                                          isActive |-> TRUE,
                                          lastLoginAt |-> NULL])
                     ELSE admins
        /\ Answer([op |-> "createAdmin", tree |-> AnyTree,
                   args |-> [sub |-> sub, username |-> username]],
                  err, IF err = OK THEN Len(admins) + 1 ELSE 0)
        /\ UNCHANGED <<persons, nextId, trees, auth>>

\* PATCH /system-admin/admins/:id: SystemAdminService.update writes the
\* fields of the payload that are not undefined.
UpdateAdmin(sub, id, updateDto) ==
    LET err == IF id \notin DOMAIN admins THEN "NotFound" ELSE OK
    IN  /\ Idle
        /\ HasToken(sub)
        /\ admins' = IF err = OK /\ Has(updateDto, "isActive")
                     THEN [admins EXCEPT ![id].isActive = updateDto.isActive]
                     ELSE admins
        /\ Answer([op |-> "updateAdmin", tree |-> AnyTree,
                   args |-> [sub |-> sub] @@ updateDto], err, id)
        /\ UNCHANGED <<persons, nextId, trees, auth>>

\* DELETE /system-admin/admins/:id.
DeactivateAdmin(sub, id) ==
    LET err == IF sub = id THEN "SelfDeactivation"
               ELSE IF id \notin DOMAIN admins THEN "NotFound"
               ELSE OK
    IN  /\ Idle
        /\ HasToken(sub)
        /\ admins' = IF err = OK THEN [admins EXCEPT ![id].isActive = FALSE]
                     ELSE admins
        /\ Answer([op |-> "deactivateAdmin", tree |-> AnyTree,
                   args |-> [sub |-> sub]], err, id)
        /\ UNCHANGED <<persons, nextId, trees, auth>>

NextAdmins ==
    \/ seedFromEnv
    \/ \E u \in AdminNames, valid \in BOOLEAN : AdminLogin(u, valid)
    \/ \E sub \in 1..MaxAdmins, u \in AdminNames : CreateAdmin(sub, u)
    \/ \E sub \in 1..MaxAdmins, id \in 1..(MaxAdmins + 1),
         dto \in Opt("isActive", BOOLEAN) : UpdateAdmin(sub, id, dto)
    \/ \E sub \in 1..MaxAdmins, id \in 1..(MaxAdmins + 1) :
         DeactivateAdmin(sub, id)
    \/ Deliver

SpecAdmins == Init /\ [][NextAdmins]_vars

\* ----------------------------------------------------- the ancestry walk
\* wouldCreateAncestryCycle, one iteration of its while loop per step, on
\* person graphs of every shape: parent ids that are null, 0, the id of a
\* row or the id of no row, with and without cycles.  The locals of the
\* walk (stack, visited) are kept with the request, together with the ids
\* handed to findOneBy (lookups); err is "loop" while the loop runs, then
\* "true" or "false".

\* The iteration that pushes the father alone.
walkIterationFatherOnly(P, potentialAncestorId, w) ==
    IF Len(w.stack) = 0 THEN [w EXCEPT !.err = "false"]
    ELSE
    LET currentId == w.stack[Len(w.stack)]
        popped == [w EXCEPT !.stack = SubSeq(@, 1, Len(@) - 1)]
    IN  IF ~Truthy(currentId) \/ currentId \in w.visited THEN popped
        ELSE
        LET looked == [popped EXCEPT !.visited = @ \cup {currentId},
                                     !.lookups = Append(@, currentId)]
        IN  IF ~Exists(P, currentId) THEN looked
            ELSE IF P[currentId].fatherId = potentialAncestorId
            THEN [looked EXCEPT !.err = "true"]
            ELSE IF Truthy(P[currentId].fatherId)
                    /\ P[currentId].fatherId \notin looked.visited
            THEN [looked EXCEPT !.stack = Append(@, P[currentId].fatherId)]
            ELSE looked

\* The iteration without the visited set.
walkIterationNoVisited(P, potentialAncestorId, w) ==
    IF Len(w.stack) = 0 THEN [w EXCEPT !.err = "false"]
    ELSE
    LET currentId == w.stack[Len(w.stack)]
        popped == [w EXCEPT !.stack = SubSeq(@, 1, Len(@) - 1)]
    IN  IF ~Truthy(currentId) THEN popped
        ELSE
        LET looked == [popped EXCEPT !.lookups = Append(@, currentId)]
        IN  IF ~Exists(P, currentId) THEN looked
            ELSE
            LET fatherId == P[currentId].fatherId
                motherId == P[currentId].motherId
                s1 == IF Truthy(fatherId) THEN Append(looked.stack, fatherId)
                      ELSE looked.stack
                s2 == IF Truthy(motherId) THEN Append(s1, motherId) ELSE s1
            IN  IF fatherId = potentialAncestorId
                   \/ motherId = potentialAncestorId
                THEN [looked EXCEPT !.err = "true"]
                ELSE [looked EXCEPT !.stack = s2]

\* One evaluation of the loop condition and, the stack not being empty, one
\* iteration of the body.
walkIteration(P, potentialAncestorId, w) ==
    IF Len(w.stack) = 0 THEN [w EXCEPT !.err = "false"]
    ELSE
    LET currentId == w.stack[Len(w.stack)]
        popped == [w EXCEPT !.stack = SubSeq(@, 1, Len(@) - 1)]
    IN  IF ~Truthy(currentId) \/ currentId \in w.visited THEN popped
        ELSE
        LET looked == [popped EXCEPT !.visited = @ \cup {currentId},
                                     !.lookups = Append(@, currentId)]
        IN  IF ~Exists(P, currentId) THEN looked
            ELSE
            LET fatherId == P[currentId].fatherId
                motherId == P[currentId].motherId
                s1 == IF Truthy(fatherId) /\ fatherId \notin looked.visited
                      THEN Append(looked.stack, fatherId) ELSE looked.stack
                s2 == IF Truthy(motherId) /\ motherId \notin looked.visited
                      THEN Append(s1, motherId) ELSE s1
            IN  IF fatherId = potentialAncestorId
                   \/ motherId = potentialAncestorId
                THEN [looked EXCEPT !.err = "true"]
                ELSE [looked EXCEPT !.stack = s2]

\* The call: const visited = new Set(), stack = [startPersonId].
WalkStart(potentialAncestorId, startPersonId) ==
    /\ Idle
    /\ resp' = [op |-> "walk", tree |-> AnyTree, id |-> startPersonId,
                args |-> [potentialAncestorId |-> potentialAncestorId,
                          startPersonId |-> startPersonId],
                err |-> "loop", stack |-> <<startPersonId>>,
                visited |-> {}, lookups |-> <<>>]
    /\ UNCHANGED <<persons, nextId, calls, accounts>>

WalkStep ==
    /\ resp.op = "walk"
    /\ resp.err = "loop"
    /\ resp' = walkIteration(persons, resp.args.potentialAncestorId, resp)
    /\ UNCHANGED <<persons, nextId, calls, accounts>>

\* The value is returned to the caller.
WalkReturn ==
    /\ resp.op = "walk"
    /\ resp.err # "loop"
    /\ Deliver

\* The rows of a graph: only the parent ids differ.
GraphRow(fatherId, motherId) ==
    [treeId |-> T1, gender |-> "male", birthDate |-> NoDate,
     deathDate |-> NoDate, progenitor |-> FALSE, fatherId |-> fatherId,
     motherId |-> motherId]

\* Every table of MaxPersons rows whose parent ids are null, 0, an id of
\* the table, or (fatherId) the id after the last.
InitWalk ==
    /\ persons \in [1..MaxPersons ->
                     {GraphRow(f, m) :
                         f \in {NULL} \cup (0..(MaxPersons + 1)),
                         m \in {NULL} \cup (1..MaxPersons)}]
    /\ nextId = MaxPersons + 1
    /\ resp = NoResp
    /\ calls = [c \in CallIds |-> IdleCall]
    /\ trees = <<>>
    /\ admins = <<>>
    /\ auth = NoAuth

NextWalk ==
    \/ \E a \in 0..(MaxPersons + 1), s \in 0..(MaxPersons + 1) :
          a # s /\ WalkStart(a, s)
    \/ WalkStep
    \/ WalkReturn

SpecWalk == InitWalk /\ [][NextWalk]_vars

\* The loop's iterations are the steps of one awaited call chain: an
\* iteration that can run does run.
SpecWalkFair == SpecWalk /\ WF_vars(WalkStep)

\* ------------------------------------------------ create with children
\* Persons created with the progenitor flag and a birth year (their
\* fatherId left out or 0), parents created for them with childrenIds of up
\* to MaxLinked ids (ids of rows, missing ids, an id twice), and persons
\* of the table linked to children in the same way; the store writes can
\* be rejected.

MaxLinked == 2

LinkingCreates ==
    CreateReqs({T1},
        {d \in CreateDtos({<<1950>>, <<1952>>}, {NoDate}, {NULL, 0}, {<<>>}) :
            /\ d.progenitor /\ d.gender = "male" /\ d.motherId = NULL
            /\ d.fatherId = 0 => d.birthDate = <<1950>>}
        \cup {d \in CreateDtos({NoDate, <<1900>>},
                               {NoDate, <<1890>>, <<1950>>},
                               {NULL}, SeqsUpTo(1..MaxPersons, MaxLinked)) :
                ~d.progenitor /\ d.childrenIds # <<>>})

LinkingLinks ==
    LinkReqs({T1}, {MaxPersons},
             SeqsUpTo(1..MaxPersons - 1, MaxLinked) \ {<<>>})

NextLinking ==
    \/ Idle /\ \E r \in LinkingCreates : Create(r)
    \/ Idle /\ \E r \in LinkingCreates, inserted \in BOOLEAN,
                  written \in SUBSET (1..MaxPersons) :
                      CreateFails(r, inserted, written)
    \/ Idle /\ \E r \in LinkingLinks : LinkChildrenToParent(r)
    \/ Idle /\ \E r \in LinkingLinks, written \in SUBSET (1..MaxPersons) :
                  LinkChildrenFails(r, written)
    \/ Deliver

SpecLinking == Init /\ [][NextLinking]_vars

\* ------------------------------------------------- updates and old values
\* Persons of one tree born in 1900 or 1950, created with the progenitor
\* flag or as children of person 1, and updates that set or clear
\* (explicit null) the birth date and the parent ids of the later persons.

UpdateDateCreates ==
    CreateReqs({T1},
        {d \in CreateDtos({<<1900>>, <<1950>>}, {NoDate}, {NULL, 1}, {<<>>}) :
            /\ d.motherId = NULL
            /\ d.progenitor <=> d.fatherId = NULL})
UpdateDateUpdates ==
    UpdateReqs({T1}, 2..MaxPersons,
               UpdateDtos({}, {NoDate, <<1913>>, <<1960>>}, {}, {NULL, 1}))

NextUpdateDates ==
    \/ Idle /\ \E r \in UpdateDateCreates : Create(r)
    \/ Idle /\ \E r \in UpdateDateUpdates : UpdatePerson(r)
    \/ Deliver

SpecUpdateDates == Init /\ [][NextUpdateDates]_vars

\* -------------------------------------------------- updatePerson, concurrent
\* Persons without dates are created by a single writer; MaxCalls
\* updatePerson calls that set a father or a mother run one each, at once
\* or one after the other, the save of one before or after the checks of
\* the other.

OverlapCreates ==
    CreateReqs({T1}, {d \in CreateDtos({NoDate}, {NoDate}, {NULL}, {<<>>}) :
                        d.progenitor})
OverlapUpdates ==
    UpdateReqs({T1}, 1..MaxPersons,
               UpdateDtos({}, {}, {}, 1..MaxPersons))

NextOverlap ==
    \/ Idle /\ \E r \in OverlapCreates : Create(r)
    \/ \E c \in CallIds, r \in OverlapUpdates :
          calls[c].pc = "idle" /\ UpdateValidate(c, r)
    \/ \E c \in CallIds : UpdateSave(c)
    \/ Deliver

SpecOverlap == Init /\ [][NextOverlap]_vars

\* ------------------------------------------------------------ properties

\* The ids a row names as its parents.
ParentIds(P, i) == {P[i].fatherId, P[i].motherId} \ {NULL}

\* The ids reachable from the rows of `frontier` by one or more parent
\* edges.
RECURSIVE AncestorsFrom(_, _, _)
AncestorsFrom(P, frontier, seen) ==
    LET nxt == UNION {ParentIds(P, i) : i \in frontier \cap DOMAIN P}
    IN  IF nxt \subseteq seen THEN seen
        ELSE AncestorsFrom(P, nxt \ seen, seen \cup nxt)

Ancestors(P, i) == AncestorsFrom(P, {i}, {})

Acyclic(P) == \A i \in DOMAIN P : i \notin Ancestors(P, i)

\* C1: after any sequence of single-writer create, update, delete,
\* link-children and promote calls from the empty table, no person is
\* reachable from itself by fatherId / motherId edges.
C1_Acyclic == Acyclic(persons)

\* C6: every fatherId that is set names a male person of the table and
\* every motherId that is set names a female person of the table.
C6_RoleGender ==
    \A i \in DOMAIN persons :
        /\ persons[i].fatherId # NULL =>
               /\ Exists(persons, persons[i].fatherId)
               /\ persons[persons[i].fatherId].gender = "male"
        /\ persons[i].motherId # NULL =>
               /\ Exists(persons, persons[i].motherId)
               /\ persons[persons[i].motherId].gender = "female"

\* The parent ids a create or update request names (NULL: none named).
NamedFather(r) ==
    IF r.op = "create" THEN r.args.fatherId ELSE PayloadId(r.args, "fatherId")
NamedMother(r) ==
    IF r.op = "create" THEN r.args.motherId ELSE PayloadId(r.args, "motherId")

\* What the relationship validator owes a request on table P: the error of
\* the first parent, father before mother, that names a person of the
\* wrong gender (InvalidRole) or no person (NotFound); "ok" when neither
\* parent offends.
ParentVerdict(P, fatherId, motherId) ==
    IF fatherId # NULL /\ ~Exists(P, fatherId) THEN "NotFound"
    ELSE IF fatherId # NULL /\ P[fatherId].gender # "male" THEN "InvalidRole"
    ELSE IF motherId # NULL /\ ~Exists(P, motherId) THEN "NotFound"
    ELSE IF motherId # NULL /\ P[motherId].gender # "female"
    THEN "InvalidRole"
    ELSE OK

\* C7: a create, or an update of an existing person, whose fatherId names a
\* female person or whose motherId names a male person fails with the
\* invalid-role error, one whose fatherId or motherId names no person of
\* the table fails with NotFound, and the table is left as it was.
C7_ParentsRejected ==
    [][(/\ resp' # NoResp
        /\ resp'.op \in {"create", "update"}
        /\ resp'.op = "update" => Exists(persons, resp'.id)
        /\ ParentVerdict(persons, NamedFather(resp'), NamedMother(resp'))
              # OK)
       => /\ resp'.err = ParentVerdict(persons, NamedFather(resp'),
                                       NamedMother(resp'))
          /\ persons' = persons]_vars

\* C2: at most one person of the table has progenitor = true.
C2_SingleProgenitor == Cardinality(progenitors(persons)) <= 1

\* C3: a promoteAncestor call whose insert, update or commit rejected is on
\* its way out with an error, and from the rejection on the committed table
\* is the table the call found: no new ancestor row, the progenitor as it
\* was.
C3_FailedPromoteRollsBack ==
    \A c \in CallIds :
        /\ calls[c].pc = "rollback" =>
               /\ calls[c].err
                      \in {"InsertFailed", "UpdateFailed", "CommitFailed"}
               /\ persons = calls[c].pre
        /\ (calls[c].pc \in {"release", "done"} /\ calls[c].err # OK) =>
               persons = calls[c].pre

\* A call returned after the commit rejected (and the rollback resolved),
\* having inserted and updated inside the transaction.
C3_Witness ==
    \E c \in CallIds :
        /\ calls[c].pc = "done"
        /\ calls[c].err = "CommitFailed"
        /\ calls[c].newId # 0
        /\ Cardinality(DOMAIN persons) >= 2

\* C4: a promoteAncestor call that returned its new ancestor, having found
\* A as the only progenitor, leaves A with progenitor = false and the new
\* ancestor's id in fatherId (role father) or motherId (role mother), A's
\* other columns as they were, the new ancestor as the only progenitor, and
\* every other row as it was.
C4_PromoteEffect ==
    \A c \in CallIds :
        (/\ calls[c].pc = "done"
         /\ calls[c].err = OK
         /\ Cardinality(progenitors(calls[c].pre)) = 1)
        => LET pre == calls[c].pre
               A == calls[c].dto.currentProgenitorId
               n == calls[c].newId
               field == IF calls[c].dto.relationship = "father"
                        THEN "fatherId" ELSE "motherId"
           IN  /\ progenitors(pre) = {A}
               /\ n \notin DOMAIN pre
               /\ DOMAIN persons = DOMAIN pre \cup {n}
               /\ persons[A].progenitor = FALSE
               /\ persons[A][field] = n
               /\ \A k \in DOMAIN pre[A] \ {"progenitor", field} :
                      persons[A][k] = pre[A][k]
               /\ progenitors(persons) = {n}
               /\ persons[n].gender = calls[c].dto.gender
               /\ \A i \in DOMAIN pre \ {A} : persons[i] = pre[i]

\* A call returned its new ancestor from a table of two rows with one
\* progenitor.
C4_Witness ==
    \E c \in CallIds :
        /\ calls[c].pc = "done"
        /\ calls[c].err = OK
        /\ Cardinality(progenitors(calls[c].pre)) = 1
        /\ Cardinality(DOMAIN calls[c].pre) = 2
        /\ Cardinality(DOMAIN persons) = 3

\* C5: with promoteAncestor calls running at once on a table that had
\* exactly one progenitor, every committed table has exactly one person
\* with progenitor = true: never two, never none.
C5_OneProgenitorCommitted ==
    DOMAIN persons # {} => Cardinality(progenitors(persons)) = 1

\* C8: every fatherId and motherId that names a person of the table names
\* a person of the same tree as the row that holds it (so no request that
\* named a parent or a child of another tree was carried out).
C8_SameTenantParents ==
    \A i \in DOMAIN persons :
        \A p \in ParentIds(persons, i) \cap DOMAIN persons :
            persons[p].treeId = persons[i].treeId

\* The years between the birth of parent p and a child born on childBirth,
\* for a parent id that is set (not 0), names a row and has a birth date.
HasGap(P, childBirth, p) ==
    /\ HasDate(childBirth)
    /\ p # NULL /\ p # 0 /\ p \in DOMAIN P
    /\ HasDate(P[p].birthDate)
Gap(P, childBirth, p) == childBirth[1] - P[p].birthDate[1]

\* The death-window rule on years: a father may have died the year before
\* the child's birth year, a mother not before it.
DeathWindowOk(role, parentDeath, childBirth) ==
    IF role = "father" THEN childBirth[1] <= parentDeath[1] + 1
    ELSE childBirth[1] <= parentDeath[1]

\* C9: for every person with a birth date and each parent of theirs, a
\* parent with a birth date was born at least 14 years before the child's
\* birth year, and a parent with a death date died within the death window
\* of its role.
C9_TemporalPlausibility ==
    \A i \in DOMAIN persons :
        \A role \in Roles :
            LET p == persons[i][IF role = "father" THEN "fatherId"
                                ELSE "motherId"]
                b == persons[i].birthDate
            IN  (HasDate(b) /\ p # NULL /\ p \in DOMAIN persons) =>
                    /\ HasGap(persons, b, p) => Gap(persons, b, p) >= 14
                    /\ HasDate(persons[p].deathDate) =>
                           DeathWindowOk(role, persons[p].deathDate, b)

\* The child birth date and the parent ids the date validator of a create
\* or update request is given on table P.
CheckedBirth(P, r) ==
    IF r.op = "create" THEN r.args.birthDate
    ELSE CoalesceDate(r.args, "birthDate", P[r.id].birthDate)
CheckedParent(P, r, k) ==
    IF r.op = "create" THEN r.args[k]
    ELSE CoalesceId(r.args, k, P[r.id][k])

\* Some parent the request is checked against is less than 14 years older
\* than the child.
SomeParentTooYoung(P, r) ==
    \E k \in {"fatherId", "motherId"} :
        /\ HasGap(P, CheckedBirth(P, r), CheckedParent(P, r, k))
        /\ Gap(P, CheckedBirth(P, r), CheckedParent(P, r, k)) < 14

DeathChecked(P, r, k) ==
    /\ HasDate(CheckedBirth(P, r))
    /\ CheckedParent(P, r, k) # NULL /\ CheckedParent(P, r, k) # 0
    /\ CheckedParent(P, r, k) \in DOMAIN P
    /\ HasDate(P[CheckedParent(P, r, k)].deathDate)
CheckedDeath(P, r, k) == P[CheckedParent(P, r, k)].deathDate

\* The death date is year-only, or the two dates are not both full dates.
YearRuleApplies(death, birth) ==
    isYearOnly(death) \/ ~(isFullDate(death) /\ isFullDate(birth))

\* C11: with a father whose death date is year-only, or of another
\* precision than the child's birth date, a create is rejected and changes
\* nothing when the child's birth year is more than one after the father's
\* death year, and (no mother's death being checked) it is rejected for the
\* death date only then.
C11_FatherYearRule ==
    [][(/\ resp' # NoResp
        /\ resp'.op = "create"
        /\ DeathChecked(persons, resp', "fatherId")
        /\ YearRuleApplies(CheckedDeath(persons, resp', "fatherId"),
                           CheckedBirth(persons, resp')))
       => LET late == CheckedBirth(persons, resp')[1]
                        > CheckedDeath(persons, resp', "fatherId")[1] + 1
          IN  /\ late => (resp'.err # OK /\ persons' = persons)
              /\ (/\ resp'.err = "DiedTooEarly"
                  /\ ~DeathChecked(persons, resp', "motherId")) => late]_vars

\* A child born in 1952 (year-only) was rejected for a father who died on
\* 1950-05-31.
C11_Witness ==
    /\ resp # NoResp
    /\ resp.op = "create"
    /\ resp.err = "DiedTooEarly"
    /\ resp.args.birthDate = <<1952>>
    /\ resp.args.fatherId = 1 /\ resp.args.motherId = NULL
    /\ persons[1].deathDate = <<1950, 5, 31>>

\* The date n calendar months after a full date: the same day of the month,
\* or the last day of that month when it is shorter.
CalendarMonthsAfter(d, n) ==
    LET mi == (d[2] - 1) + n
        y  == d[1] + (mi \div 12)
        m  == (mi % 12) + 1
        dim == DaysInMonth(y, m)
    IN  <<y, m, IF d[3] > dim THEN dim ELSE d[3]>>

\* C12: with a father's death date and a child's birth date that are both
\* full dates, a create is rejected and changes nothing when the birth date
\* is later than the death date plus 9 calendar months, and (no mother's
\* death being checked) it is rejected for the death date only then.
C12_FatherNineMonths ==
    [][(/\ resp' # NoResp
        /\ resp'.op = "create"
        /\ DeathChecked(persons, resp', "fatherId")
        /\ isFullDate(CheckedDeath(persons, resp', "fatherId"))
        /\ isFullDate(CheckedBirth(persons, resp')))
       => LET late == DateAfter(CheckedBirth(persons, resp'),
                          CalendarMonthsAfter(
                              CheckedDeath(persons, resp', "fatherId"), 9))
          IN  /\ late => (resp'.err # OK /\ persons' = persons)
              /\ (/\ resp'.err = "DiedTooEarly"
                  /\ ~DeathChecked(persons, resp', "motherId")) => late]_vars

\* C13: with a mother whose death date is year-only, or of another
\* precision than the child's birth date, a create is rejected and changes
\* nothing when the child's birth year is after the mother's death year,
\* and (no father's death being checked) it is rejected for the death date
\* only then.
C13_MotherYearRule ==
    [][(/\ resp' # NoResp
        /\ resp'.op = "create"
        /\ DeathChecked(persons, resp', "motherId")
        /\ YearRuleApplies(CheckedDeath(persons, resp', "motherId"),
                           CheckedBirth(persons, resp')))
       => LET late == CheckedBirth(persons, resp')[1]
                        > CheckedDeath(persons, resp', "motherId")[1]
          IN  /\ late => (resp'.err # OK /\ persons' = persons)
              /\ (/\ resp'.err = "DiedTooEarly"
                  /\ ~DeathChecked(persons, resp', "fatherId")) => late]_vars

\* A child born in 1951 (year-only) was rejected for a mother who died in
\* 1950 (year-only).
C13_Witness ==
    /\ resp # NoResp
    /\ resp.op = "create"
    /\ resp.err = "DiedTooEarly"
    /\ resp.args.birthDate = <<1951>>
    /\ resp.args.motherId = 2 /\ resp.args.fatherId = NULL
    /\ persons[2].deathDate = <<1950>>

\* C14 as stated: with a mother's death date and a child's birth date that
\* are both full dates, a create is accepted only if the birth date is not
\* before the death date, and fails when it is before it.
C14_BirthNotBeforeDeath ==
    [][(/\ resp' # NoResp
        /\ resp'.op = "create"
        /\ DeathChecked(persons, resp', "motherId")
        /\ isFullDate(CheckedDeath(persons, resp', "motherId"))
        /\ isFullDate(CheckedBirth(persons, resp')))
       => LET before == DateAfter(CheckedDeath(persons, resp', "motherId"),
                                  CheckedBirth(persons, resp'))
          IN  /\ resp'.err = OK => ~before
              /\ before => resp'.err # OK]_vars

\* C14 amended: with a mother's death date and a child's birth date that
\* are both full dates, a create is rejected and changes nothing when the
\* death date is before the birth date, and (no father's death being
\* checked) it is rejected for the death date only then.
C14_DeathNotBeforeBirth ==
    [][(/\ resp' # NoResp
        /\ resp'.op = "create"
        /\ DeathChecked(persons, resp', "motherId")
        /\ isFullDate(CheckedDeath(persons, resp', "motherId"))
        /\ isFullDate(CheckedBirth(persons, resp')))
       => LET late == DateAfter(CheckedBirth(persons, resp'),
                                CheckedDeath(persons, resp', "motherId"))
          IN  /\ late => (resp'.err # OK /\ persons' = persons)
              /\ (/\ resp'.err = "DiedTooEarly"
                  /\ ~DeathChecked(persons, resp', "fatherId")) => late]_vars

\* A child born on 1950-06-01 was rejected for a mother who died the day
\* before.
C14_Witness ==
    /\ resp # NoResp
    /\ resp.op = "create"
    /\ resp.err = "DiedTooEarly"
    /\ resp.args.birthDate = <<1950, 6, 1>>
    /\ resp.args.motherId = 2 /\ resp.args.fatherId = NULL
    /\ persons[2].deathDate = <<1950, 5, 31>>

\* What the child-to-parent validator answers for child c when the parent a
\* create request describes is stored as row n and named as c's father (a
\* male parent) or mother (a female parent).
ChildToParentVerdict(P, n, r, c) ==
    validateParentDates(
        SaveRow(P, n, NewRow(r.tree, r.args, r.args.progenitor)),
        P[c].birthDate,
        IF r.args.gender = "male" THEN n ELSE NULL,
        IF r.args.gender = "female" THEN n ELSE NULL)

\* C15: a create that names one existing child with a birth date, and is
\* not turned down before the dates are looked at, is accepted by the
\* parent-to-children validator exactly when the child-to-parent validator
\* accepts the same parent for that child.
C15_ValidatorsAgree ==
    [][(/\ resp' # NoResp
        /\ resp'.op = "create"
        /\ Len(resp'.args.childrenIds) = 1
        /\ resp'.args.childrenIds[1] \in DOMAIN persons
        /\ HasDate(persons[resp'.args.childrenIds[1]].birthDate)
        /\ resp'.err \in {OK, "ParentTooYoung", "DiedTooEarly",
                          "DeathBeforeBirth"})
       => ((resp'.err = OK)
           <=> (ChildToParentVerdict(persons, nextId, resp',
                                     resp'.args.childrenIds[1]) = OK))]_vars

\* Carrying out a request would close a cycle: an update of x names a
\* parent p (not x) of which x is an ancestor; a link of parent p names a
\* child x (not p) that is an ancestor of p.
ClosesCycle(P, r) ==
    IF r.op = "update"
    THEN \E p \in {PayloadId(r.args, "fatherId"),
                   PayloadId(r.args, "motherId")} \ {NULL, r.id} :
             r.id \in Ancestors(P, p)
    ELSE \E x \in Range(r.args.childrenIds) \ {r.id} :
             x \in Ancestors(P, r.id)

\* C16: on an acyclic table, an update of an existing person or a link that
\* would close a cycle is rejected, the cycle error is given only to such a
\* request, and a rejected request changes nothing.
C16_CycleDetectedExactly ==
    [][(/\ resp' # NoResp
        /\ resp'.op \in {"update", "link"}
        /\ Exists(persons, resp'.id)
        /\ Acyclic(persons))
       => /\ ClosesCycle(persons, resp') => resp'.err # OK
          /\ resp'.err = "CycleDetected" => ClosesCycle(persons, resp')
          /\ resp'.err # OK => persons' = persons]_vars

\* An update was rejected for a cycle through a grandchild: the parent it
\* names is not a child of the updated person.
C16_Witness ==
    /\ resp # NoResp
    /\ resp.op = "update"
    /\ resp.err = "CycleDetected"
    /\ Acyclic(persons)
    /\ \E p \in {PayloadId(resp.args, "fatherId"),
                 PayloadId(resp.args, "motherId")} \cap DOMAIN persons :
           /\ resp.id \in Ancestors(persons, p)
           /\ resp.id \notin ParentIds(persons, p)

\* A create payload supplies none of: fatherId, motherId, one or more
\* childrenIds, the progenitor flag.
SuppliesNothing(dto) ==
    /\ dto.fatherId = NULL /\ dto.motherId = NULL
    /\ Len(dto.childrenIds) = 0
    /\ ~dto.progenitor

\* The rows of tree t.
TreeRows(P, t) == {i \in DOMAIN P : P[i].treeId = t}

\* C17: a create that supplies no father, no mother, no children and no
\* progenitor flag, for a tree that has a person, fails with the
\* disconnected-person error and inserts nothing; a create that supplies
\* one of the four is not turned down as disconnected.
C17_ConnectivityGuard ==
    [][(resp' # NoResp /\ resp'.op = "create")
       => /\ (/\ SuppliesNothing(resp'.args)
              /\ TreeRows(persons, resp'.tree) # {})
             => (resp'.err = "DisconnectedPerson" /\ persons' = persons)
          /\ ~SuppliesNothing(resp'.args)
             => resp'.err # "DisconnectedPerson"]_vars

\* C18: a create without parents and children, with or without the
\* progenitor flag, for a tree that has no person, succeeds and the row it
\* stores has progenitor = true.
C18_FirstPersonIsProgenitor ==
    [][(/\ resp' # NoResp
        /\ resp'.op = "create"
        /\ resp'.args.fatherId = NULL /\ resp'.args.motherId = NULL
        /\ Len(resp'.args.childrenIds) = 0
        /\ TreeRows(persons, resp'.tree) = {})
       => /\ resp'.err = OK
          /\ DOMAIN persons' = DOMAIN persons \cup {resp'.id}
          /\ resp'.id \notin DOMAIN persons
          /\ persons'[resp'.id].progenitor = TRUE]_vars

\* C19: removing an existing person fails with the has-dependents error and
\* changes nothing exactly when some row names the person as father or
\* mother; otherwise it succeeds, that row is gone and every other row is
\* as it was.
C19_RemoveBlockedByDependents ==
    [][(/\ resp' # NoResp
        /\ resp'.op = "remove"
        /\ Exists(persons, resp'.id))
       => IF \E i \in DOMAIN persons :
                 \/ persons[i].fatherId = resp'.id
                 \/ persons[i].motherId = resp'.id
          THEN resp'.err = "HasDependents" /\ persons' = persons
          ELSE /\ resp'.err = OK
               /\ DOMAIN persons' = DOMAIN persons \ {resp'.id}
               /\ \A i \in DOMAIN persons' : persons'[i] = persons[i]]_vars

\* A mother with a child was not removed.
C19_Witness ==
    /\ resp # NoResp
    /\ resp.op = "remove"
    /\ resp.err = "HasDependents"
    /\ \E i \in DOMAIN persons : persons[i].motherId = resp.id
    /\ \A i \in DOMAIN persons : persons[i].fatherId # resp.id

\* C20: an update of an existing person that names the person itself as
\* father, or as mother, fails with the self-parent error and changes
\* nothing.
C20_SelfParentRejected ==
    [][(/\ resp' # NoResp
        /\ resp'.op = "update"
        /\ Exists(persons, resp'.id)
        /\ \/ PayloadId(resp'.args, "fatherId") = resp'.id
           \/ PayloadId(resp'.args, "motherId") = resp'.id)
       => (resp'.err = "SelfParent" /\ persons' = persons)]_vars

\* The gender the requested role asks of the new ancestor.
expectedGender(dto) == IF dto.relationship = "father" THEN "male" ELSE "female"

\* The call record k ended in the checks before the transaction with error
\* e: no query runner was created, nothing was inserted or updated, and the
\* committed table is the table the call found.
EndedBeforeTx(k, e) ==
    /\ k.pc = "done"
    /\ k.err = e
    /\ k.runners = 0
    /\ k.released = 0
    /\ k.newId = 0
    /\ k.tx = NoTx
    /\ persons = k.pre

\* C21: a promoteAncestor call that found no person flagged progenitor fails
\* with NotFound; one whose currentProgenitorId is not the id of a person
\* flagged progenitor fails with IdentityMismatch; one whose
\* currentProgenitorId is the id of the progenitor found and whose gender is
\* not the gender of the requested role (father: male, mother: female) fails
\* with the role error (with several persons flagged, the call fails with
\* IdentityMismatch when the lookup returned another of them).  In each
\* case no query runner is created, no transaction is started and the table
\* is unchanged; and a call fails with one of the three errors in these
\* cases only.
C21_PromoteRejections ==
    \A c \in CallIds :
        LET k == calls[c]
            flagged == progenitors(k.pre)
        IN  k.pc # "idle" =>
              /\ flagged = {} => EndedBeforeTx(k, "NotFound")
              /\ (flagged # {} /\ k.dto.currentProgenitorId \notin flagged)
                    => EndedBeforeTx(k, "IdentityMismatch")
              /\ (/\ k.dto.currentProgenitorId \in flagged
                  /\ k.dto.gender # expectedGender(k.dto))
                    => \/ EndedBeforeTx(k, "InvalidRole")
                       \/ /\ Cardinality(flagged) > 1
                          /\ EndedBeforeTx(k, "IdentityMismatch")
              /\ k.err = "NotFound" => flagged = {}
              /\ k.err = "IdentityMismatch" =>
                    flagged \ {k.dto.currentProgenitorId} # {}
              /\ k.err = "InvalidRole" =>
                    /\ k.dto.currentProgenitorId \in flagged
                    /\ k.dto.gender # expectedGender(k.dto)
              /\ k.err \in {"NotFound", "IdentityMismatch", "InvalidRole"}
                    => EndedBeforeTx(k, k.err)

\* A call that named the only progenitor of a table of two persons was
\* turned down for the new ancestor's gender.
C21_Witness ==
    \E c \in CallIds :
        /\ calls[c].pc = "done"
        /\ calls[c].err = "InvalidRole"
        /\ Cardinality(DOMAIN calls[c].pre) = 2
        /\ progenitors(calls[c].pre) = {calls[c].dto.currentProgenitorId}
        /\ persons = calls[c].pre

\* C22: once a person is created its gender never changes: no step of
\* updatePerson, linkChildrenToParent, promoteAncestor or the system
\* administrator's person update changes the gender of a row that exists.
C22_GenderImmutable ==
    [][\A i \in DOMAIN persons \cap DOMAIN persons' :
          persons'[i].gender = persons[i].gender]_vars

C24_GuestCannotWrite ==
    [][\A r \in ControllerReqs :
          PersonsController("guest", r) =>
              IF r.op \in GuardedOps
              THEN /\ resp'.err = "Forbidden"
                   /\ persons' = persons
                   /\ nextId' = nextId
                   /\ \A c \in CallIds : calls'[c].pc \in {"idle", "done"}
              ELSE /\ resp'.err # "Forbidden"
                   /\ persons' = persons]_vars

\* A guest's create was refused on a table that holds persons.
C24_Witness ==
    /\ resp.op = "create"
    /\ resp.err = "Forbidden"
    /\ Cardinality(DOMAIN persons) = 2

\* C25: after any sequence of register calls every username identifies at
\* most one credential: no two trees have the same admin username, no two
\* trees have the same guest username, and no admin username of a tree is
\* the guest username of that tree or of another.
C25_UsernamesUnique ==
    \A i, j \in DOMAIN trees :
        /\ i # j => /\ trees[i].adminUsername # trees[j].adminUsername
                    /\ trees[i].guestUsername # trees[j].guestUsername
        /\ trees[i].adminUsername # trees[j].guestUsername

\* Two trees are registered, and a registration that used the guest
\* username of one of them as its admin username was turned down.
C25_Witness ==
    /\ Len(trees) >= 2
    /\ resp.op = "register"
    /\ resp.err = "AdminUsernameTaken"
    /\ \E i \in DOMAIN trees : trees[i].guestUsername = resp.args.adminUsername
    /\ \A i \in DOMAIN trees : trees[i].adminUsername # resp.args.adminUsername

\* C26: no request authenticated as system administrator A makes A's own
\* account inactive: a step of a request whose token names A leaves A's
\* isActive true if it was true.
C26_NoSelfDeactivation ==
    [][\A a \in DOMAIN admins :
          (/\ resp'.op \in {"createAdmin", "updateAdmin", "deactivateAdmin"}
           /\ resp'.args.sub = a
           /\ admins[a].isActive)
          => admins'[a].isActive]_vars

\* C27: on every person graph, with references to missing persons and to
\* id 0 and with cycles, and for distinct ids a and s, the walk
\* wouldCreateAncestryCycle(a, s) returns true if and only if a is reachable
\* from s by one or more fatherId / motherId edges; the traversal written
\* as one recursive function gives the same value.
C27_WalkIsReachability ==
    (resp.op = "walk" /\ resp.err # "loop") =>
        LET a == resp.args.potentialAncestorId
            s == resp.args.startPersonId
        IN  /\ (resp.err = "true") <=> (a \in Ancestors(persons, s))
            /\ (resp.err = "true") <=> wouldCreateAncestryCycle(persons, a, s)

\* The walk returned true for an ancestor three edges up, reached through
\* the mother's side.
C27_Witness ==
    /\ resp.op = "walk"
    /\ resp.err = "true"
    /\ Len(resp.lookups) = 3
    /\ LET s == resp.args.startPersonId
       IN  /\ Exists(persons, s)
           /\ resp.args.potentialAncestorId
                  \notin {persons[s].fatherId, persons[s].motherId}
           /\ persons[s].fatherId = NULL

\* C28: on every person graph, with parent cycles and references to missing
\* persons, wouldCreateAncestryCycle hands no id to findOneBy twice, and a
\* walk that has started ends with a value.
C28_WalkTerminates ==
    /\ [](resp.op = "walk" =>
            \A i, j \in 1..Len(resp.lookups) :
                resp.lookups[i] = resp.lookups[j] => i = j)
    /\ (resp.op = "walk" /\ resp.err = "loop")
           ~> (resp.op = "walk" /\ resp.err # "loop")

\* A walk on a graph with a cycle of three persons ended after it had
\* looked up each of them.
C28_Witness ==
    /\ resp.op = "walk"
    /\ resp.err = "false"
    /\ Len(resp.lookups) = MaxPersons
    /\ \A i \in DOMAIN persons : i \in Ancestors(persons, i)

\* A check of validateChildren fails for the payload on table P: a listed
\* id names no row (or is listed twice), a listed child has a parent in the
\* new person's column, or the dates of the new person and a listed child
\* break a rule of validateParentDatesForChildren.
ChildCheckFails(P, dto) ==
    LET listed == Range(dto.childrenIds) \cap DOMAIN P
    IN  /\ Len(dto.childrenIds) > 0
        /\ \/ Cardinality(listed) # Len(dto.childrenIds)
           \/ \E c \in listed : Truthy(P[c][ParentField(dto.gender)])
           \/ validateParentDatesForChildren(P, listed, dto.gender,
                                             dto.birthDate, dto.deathDate) # OK

\* C29: a create with childrenIds for which a child check fails (a listed
\* child is missing, has a parent of the new person's role already, or
\* breaks a temporal rule) is rejected and leaves the table as it was: no
\* child row is changed and no person is inserted; and a create answered
\* with an error of the child checks has written nothing.
C29_ChildCheckFailureWritesNothing ==
    [][(resp' # NoResp /\ resp'.op = "create") =>
          /\ (ChildCheckFails(persons, resp'.args) /\ resp'.err # "WriteFailed")
                => (resp'.err # OK /\ persons' = persons /\ nextId' = nextId)
          /\ ChildCheckFails(persons, resp'.args) => resp'.err # "WriteFailed"
          /\ resp'.err \in {"ChildrenNotFound", "ChildHasParent",
                            "DeathBeforeBirth", "ParentTooYoung",
                            "DiedTooEarly"}
                => (persons' = persons /\ nextId' = nextId)]_vars

\* A create listing two children, the first of which passes every check,
\* was rejected because the second has a father already.
C29_Witness ==
    /\ resp.op = "create"
    /\ resp.err = "ChildHasParent"
    /\ Len(resp.args.childrenIds) = 2
    /\ LET c1 == resp.args.childrenIds[1]
           c2 == resp.args.childrenIds[2]
       IN  /\ c1 \in DOMAIN persons /\ c2 \in DOMAIN persons
           /\ persons[c1].fatherId = NULL
           /\ persons[c2].fatherId # NULL
           /\ resp.args.gender = "male"

\* C30: when a create with childrenIds has inserted the new person and a
\* child-link write is then rejected, the caller gets the error and the new
\* person's row stays in the table, as it was inserted: the insert is not
\* undone.
C30_InsertNotUndone ==
    [][(/\ resp' # NoResp
        /\ resp'.op = "create"
        /\ resp'.err = "WriteFailed"
        /\ resp'.id # 0)
       => /\ resp'.id \notin DOMAIN persons
          /\ DOMAIN persons' = DOMAIN persons \cup {resp'.id}
          /\ persons'[resp'.id]
                = NewRow(resp'.tree, resp'.args,
                         notOrphanProgenitor(persons, resp'.args))]_vars

\* A father was inserted for two children; the write for one child went
\* through and the write for the other was rejected.
C30_Witness ==
    /\ resp.op = "create"
    /\ resp.err = "WriteFailed"
    /\ resp.id \in DOMAIN persons
    /\ Len(resp.args.childrenIds) = 2
    /\ \E c, e \in Range(resp.args.childrenIds) :
          /\ persons[c].fatherId = resp.id
          /\ persons[e].fatherId = NULL

\* The listed children whose parent column holds the parent after the
\* answer.
LinkedChildren(P, parentId, childrenIds) ==
    {c \in Range(childrenIds) \cap DOMAIN P :
        P[c][ParentField(P[parentId].gender)] = parentId}

\* C31: in linkChildrenToParent and in a create with childrenIds the child
\* writes are applied one after another and stop at the first rejected one:
\* when a write is rejected, the children linked are exactly those before
\* the rejected one (in the order of the payload, or in the order of their
\* ids).
C31_ChildWritesStopAtFailure ==
    [][(/\ resp' # NoResp
        /\ resp'.op \in {"create", "link"}
        /\ resp'.err = "WriteFailed"
        /\ resp'.id # 0)
       => LET ids == resp'.args.childrenIds
              linked == LinkedChildren(persons', resp'.id, ids)
          IN  \/ \E k \in 1..Len(ids) :
                    linked = {ids[j] : j \in 1..(k - 1)}
              \/ \E k \in Range(ids) :
                    linked = {c \in Range(ids) : c < k}]_vars

\* The column a create or link request assigns in its children.
AssignedField(P, r) ==
    IF r.op = "create" THEN ParentField(r.args.gender)
    ELSE IF r.args.parentType = "father" THEN "fatherId" ELSE "motherId"

\* C32: a create with childrenIds or a linkChildrenToParent that lists a
\* child whose parent id of the assigned role is not null is rejected and
\* changes nothing; and a successful create or link replaces no fatherId or
\* motherId that was not null.
C32_LinkNeverReplacesParent ==
    [][(/\ resp' # NoResp
        /\ resp'.op \in {"create", "link"})
       => /\ (\E c \in Range(resp'.args.childrenIds) \cap DOMAIN persons :
                 persons[c][AssignedField(persons, resp')] # NULL)
             => (resp'.err # OK /\ persons' = persons /\ nextId' = nextId)
          /\ resp'.err = OK
             => \A i \in DOMAIN persons :
                   /\ persons[i].fatherId # NULL
                        => persons'[i].fatherId = persons[i].fatherId
                   /\ persons[i].motherId # NULL
                        => persons'[i].motherId = persons[i].motherId]_vars

\* The verdict of the temporal validation of an update when it runs for
\* every payload that holds birthDate, fatherId or motherId, on the payload's
\* value of each field the payload holds (null included) and on the stored
\* value of each field it does not hold.
TemporalVerdictAsSpecified(P, id, dto) ==
    IF Has(dto, "birthDate") \/ Has(dto, "fatherId") \/ Has(dto, "motherId")
    THEN validateParentDates(P,
             IF Has(dto, "birthDate") THEN dto.birthDate ELSE P[id].birthDate,
             IF Has(dto, "fatherId") THEN dto.fatherId ELSE P[id].fatherId,
             IF Has(dto, "motherId") THEN dto.motherId ELSE P[id].motherId)
    ELSE OK

\* The errors of the temporal validation.
TemporalErrors == {"DeathBeforeBirth", "ParentTooYoung", "DiedTooEarly"}

\* C33: an updatePerson of a stored person whose parent ids pass
\* validateParents is rejected by the temporal validation exactly when the
\* validation, run iff the payload holds birthDate, fatherId or motherId and
\* fed the payload's value of each held field (an explicit null included)
\* and the stored value of each field left out, rejects it.
C33_UpdateValidatesPayloadValues ==
    [][(/\ resp' # NoResp
        /\ resp'.op = "update"
        /\ Exists(persons, resp'.id)
        /\ (GivenId(resp'.args, "fatherId") \/ GivenId(resp'.args, "motherId"))
              => validateParents(persons, PayloadId(resp'.args, "fatherId"),
                                 PayloadId(resp'.args, "motherId")) = OK)
       => LET v == TemporalVerdictAsSpecified(persons, resp'.id, resp'.args)
          IN  IF v # OK THEN resp'.err = v
              ELSE resp'.err \notin TemporalErrors]_vars

\* The update call sets p as the father or the mother.
SetsParent(call, p) ==
    \/ PayloadId(call.dto, "fatherId") = p
    \/ PayloadId(call.dto, "motherId") = p

\* Calls c and e are two updates that passed their checks on the same
\* acyclic table: c makes e's person a parent of its person, and e makes
\* c's person a parent of its person.
MutualUpdates(c, e) ==
    /\ c # e
    /\ calls[c].err = OK
    /\ calls[e].err = OK
    /\ calls[c].newId # calls[e].newId
    /\ calls[c].newId \in DOMAIN calls[c].pre
    /\ calls[e].newId \in DOMAIN calls[e].pre
    /\ calls[c].pre = calls[e].pre
    /\ Acyclic(calls[c].pre)
    /\ SetsParent(calls[c], calls[e].newId)
    /\ SetsParent(calls[e], calls[c].newId)

\* C34: two overlapping updatePerson calls, one making B a parent of A and
\* the other making A a parent of B, both pass the cycle detection on the
\* same acyclic table; when one has saved and nothing else was written, the
\* save of the other goes through as well, and the table then holds a
\* cycle: A and B are their own ancestors.
C34_ConcurrentUpdatesCloseCycle ==
    [][\A c, e \in CallIds :
          (/\ MutualUpdates(c, e)
           /\ calls[e].pc = "done"
           /\ persons = savedTable(calls[e].pre, calls[e].pre,
                                   calls[e].newId, calls[e].dto)
           /\ calls[c].pc = "save"
           /\ calls'[c].pc = "done")
          => /\ calls'[c].err = OK
             /\ Acyclic(persons)
             /\ calls[c].newId \in Ancestors(persons', calls[c].newId)
             /\ calls[e].newId \in Ancestors(persons', calls[e].newId)]_vars

\* Two such calls have saved.
C34_Witness ==
    \E c, e \in CallIds :
        /\ MutualUpdates(c, e)
        /\ calls[c].pc = "done" /\ calls[e].pc = "done"
        /\ persons[calls[c].newId].fatherId = calls[e].newId
        /\ calls[e].newId \in ParentIds(persons, calls[c].newId)
        /\ calls[c].newId \in ParentIds(persons, calls[e].newId)

\* C35: a password-reset token is single-use: a resetPassword call with a
\* token that an earlier resetPassword succeeded with is rejected and
\* changes no row of the tree table.
C35_ResetTokenSingleUse ==
    [][(/\ resp' # NoResp
        /\ resp'.op = "reset"
        /\ resp'.args.token \in auth.spent)
       => (resp'.err # OK /\ trees' = trees)]_vars

\* The tree table without the trees of the email.
WithoutEmail(T, email) == SelectSeq(T, LAMBDA row : row.ownerEmail # email)

\* C36: what forgotPassword answers (message, requiresTreeSelection, tree
\* list, error) does not depend on whether trees with the email exist: for
\* every treeId it is the answer given on the table without those trees.
C36_ForgotPasswordHidesEmail ==
    [][(resp' # NoResp /\ resp'.op = "forgot")
       => resp'.body
            = forgotPasswordResponse(WithoutEmail(trees, resp'.args.email),
                                     resp'.args.email,
                                     resp'.args.treeId)]_vars

\* C37: after any sequence of single-writer create, update, delete and
\* link-children calls, every fatherId and motherId that is set (any number,
\* 0 included) is the id of a person in the table.
C37_ParentIdsExist ==
    \A i \in DOMAIN persons :
        \A p \in ParentIds(persons, i) : p \in DOMAIN persons

C39_ProgenitorIsRoot ==
    \A i \in DOMAIN persons :
        persons[i].progenitor
            => (persons[i].fatherId = NULL /\ persons[i].motherId = NULL)

\* C31 (amended): in linkChildrenToParent and in a create with childrenIds
\* the child writes are issued together.  When a write is rejected the call
\* fails with the store's error and nothing is undone: every listed child
\* is either linked to the parent (its parent column of the parent's role
\* holds the parent's id, the rest of the row as before) or exactly as it
\* was, at least one of them is as it was, and no other row of the table
\* is changed.  The linked children can be any proper subset of the listed
\* ones.
C31_ChildWritesIssuedTogether ==
    [][(/\ resp' # NoResp
        /\ resp'.op \in {"create", "link"}
        /\ resp'.err = "WriteFailed"
        /\ resp'.id # 0)
       => LET ids == resp'.args.childrenIds
              field == ParentField(persons'[resp'.id].gender)
          IN  /\ \A i \in DOMAIN persons \ Range(ids) :
                    persons'[i] = persons[i]
              /\ \A c \in Range(ids) :
                    \/ persons'[c] = persons[c]
                    \/ persons'[c] = [persons[c] EXCEPT ![field] = resp'.id]
              /\ \E c \in Range(ids) : persons'[c] = persons[c]]_vars

\* A link of the children 1 and 2, in this order, has failed: the write for
\* child 1 was rejected and the write for child 2, listed after it, was
\* applied.
C31_Witness ==
    /\ resp.op = "link"
    /\ resp.err = "WriteFailed"
    /\ resp.args.childrenIds = <<1, 2>>
    /\ LinkedChildren(persons, resp.id, resp.args.childrenIds) = {2}

====
